---- MODULE Spec2Model ----
(***************************************************************************)
(* Library Management System of real_world_example.py: LibraryItem,        *)
(* Patron, Subject/Observer and LibrarySystem, as a state machine.         *)
(*                                                                         *)
(* Time is a logical clock counted in ticks, TicksPerDay ticks to a day;   *)
(* datetime.now() reads it.  A handler runs within one tick.  Money is     *)
(* counted in hundredths of a currency unit (0.25 is 25); every amount the *)
(* model uses is a multiple of 0.25, which float arithmetic adds and       *)
(* subtracts exactly.                                                      *)
(***************************************************************************)
EXTENDS Integers, Sequences, FiniteSets, TLC

\* ---------------------------------------------------------------- bounds
MaxLog == 4          \* cap on the length of the transaction log
MaxLoans == 3        \* cap on the logged calls at the circulation desk
MaxHubLog == 3       \* cap on the log where observers come and go
MaxSearchLog == 2    \* cap on the logged calls between searches
MaxCriteria == 3     \* cap on the keyword arguments of one search
MaxPopularLog == 6   \* cap on the logged calls before the count of check-outs
MaxOverdueLog == 2   \* cap on the logged calls before the overdue report
MaxExportLog == 2    \* cap on the logged calls between exports
MaxLedgerLog == 5    \* cap on the logged calls counted per item id
MaxEnqueues == 4     \* cap on the enqueue calls of a TwoStackQueue
MaxStack == 4        \* cap on the height of a MinStack
MaxPushes == 4       \* cap on the push calls of a PriorityQueue
MaxThreads == 2      \* threads that call ThreadSafeSingleton()
MaxCalls == 2        \* cap on the constructor calls of one thread
MaxQueryLog == 1     \* cap on the logged calls between read-only calls
MaxTime == 6         \* cap on the logical clock, in ticks
TicksPerDay == 2     \* clock resolution: ticks in one day

\* ------------------------------------------------------------- constants
LateFeePerDay == 25  \* fine = days_late * 0.25
DefaultDueDays == 14 \* check_out_item(..., due_days=14)

\* ---------------------------------------------------- inputs of the calls
ItemIds == {"B1", "B2"}
PatronIds == {"P1", "P2"}
LibrarianIds == {"L1"}
ObserverIds == {"email", "sms"}
DueDays == {0, 1}
Amounts == {0, 25, 50}

None == "None"

VARIABLES
    items,            \* LibrarySystem._items: the catalog's keys, in insertion order
    checked_out,      \* LibraryItem._checked_out of the item object of each id
    patrons,          \* LibrarySystem._patrons: keys in insertion order
    borrowed_items,   \* Patron._borrowed_items: item_id -> due date, per patron
    fine_amount,      \* Patron._fine_amount, per patron
    librarians,       \* LibrarySystem._librarians: keys in insertion order
    transaction_log,  \* LibrarySystem._transaction_log
    observers,        \* Subject._observers
    inbox,            \* the messages each observer's update() has received
    failing,          \* the observers whose update() raises
    now,              \* datetime.now(), in ticks
    last,             \* the last call and what it returned
    paid,             \* per patron, the sum of the successful pay_fine amounts
    log_cap           \* the log length at which the model stops logged calls

\* the objects of the tutorials
VARIABLES
    stack_newest,     \* TwoStackQueue.stack_newest, top at the end
    stack_oldest,     \* TwoStackQueue.stack_oldest, top at the end
    enqueued,         \* every value enqueued so far, in the order of the calls
    dequeued,         \* the number of dequeue calls that returned a value
    stack,            \* MinStack.stack, top at the end
    min_stack,        \* MinStack.min_stack, top at the end
    queue,            \* PriorityQueue._queue: the heap, heap[0] first
    index,            \* PriorityQueue._index
    pops,             \* the number of pop calls that returned an item
    _instance,        \* ThreadSafeSingleton._instance: an object, or NoObject
    _lock,            \* ThreadSafeSingleton._lock: the thread holding it, or NoThread
    objects,          \* the ThreadSafeSingleton objects allocated, in order
    pc,               \* where each thread is in its constructor call
    returned,         \* what each thread's last constructor call returned
    calls,            \* the constructor calls each thread has made
    inits,            \* how often "value = None" has run
    result            \* the last call on a tutorial object and what it returned

two_stack_queue == <<stack_newest, stack_oldest, enqueued, dequeued>>

priority_queue == <<queue, index, pops>>

thread_safe_singleton ==
    <<_instance, _lock, objects, pc, returned, calls, inits>>

tutorials == <<two_stack_queue, stack, min_stack, priority_queue,
               thread_safe_singleton, result>>

vars == <<items, checked_out, patrons, borrowed_items, fine_amount, librarians,
          transaction_log, observers, inbox, failing, now, last, paid,
          log_cap, tutorials>>

\* what no operation changes
config == <<failing, log_cap, tutorials>>

\* the state of the library proper: everything but the clock and the call record
library == <<items, checked_out, patrons, borrowed_items, fine_amount,
             librarians, transaction_log, observers, inbox>>

\* ------------------------------------------------------------- helpers
Range(s) == {s[k] : k \in 1..Len(s)}

Remove(s, x) == SelectSeq(s, LAMBDA y : y # x)

\* dict[key] = value
Put(d, key, value) == [k \in DOMAIN d \cup {key} |-> IF k = key THEN value ELSE d[k]]

\* del dict[key]
Del(d, key) == [k \in DOMAIN d \ {key} |-> d[k]]

EmptyDict == [k \in {} |-> 0]

\* str, int and bool values: a str is the sequence of its characters, and
\* bool is a subclass of int, True being 1 and False 0
str(v) == [type |-> "str", chars |-> v, num |-> 0]
int(v) == [type |-> "int", chars |-> <<>>, num |-> v]
bool(v) == [type |-> "bool", chars |-> <<>>, num |-> IF v THEN 1 ELSE 0]

\* The attributes of the item objects that search_items is asked about: B1
\* is a Book (title, author, year), B2 a DVD (title, director, release_year).
item_objects ==
    [B1 |-> [title |-> str(<<"P", "y">>), author |-> str(<<"T", "y">>),
             year |-> int(2020)],
     B2 |-> [title |-> str(<<"T", "p", "Y">>), director |-> str(<<"A">>),
             release_year |-> int(2018)]]

hasattr(item_id, key) == key \in DOMAIN item_objects[item_id]
getattr(item_id, key) == item_objects[item_id][key]

\* item.title
title(item_id) == getattr(item_id, "title").chars

name(person_id) == <<"name", person_id>>

\* ------------------------------------------------------------ LibraryItem
\* check_out that reports success without setting the flag
check_out_no_set(flags, item_id) ==
    IF flags[item_id]
    THEN [ret |-> FALSE, checked_out |-> flags]
    ELSE [ret |-> TRUE, checked_out |-> flags]

\* LibraryItem.check_out: [ret, flags after]
check_out(flags, item_id) ==
    IF flags[item_id]
    THEN [ret |-> FALSE, checked_out |-> flags]
    ELSE [ret |-> TRUE, checked_out |-> [flags EXCEPT ![item_id] = TRUE]]

\* LibraryItem.check_in
check_in(flags, item_id) ==
    IF ~flags[item_id]
    THEN [ret |-> FALSE, checked_out |-> flags]
    ELSE [ret |-> TRUE, checked_out |-> [flags EXCEPT ![item_id] = FALSE]]

\* ----------------------------------------------------------------- Patron
\* due date with due_days taken in clock ticks instead of days
due_date_in_ticks(due_days) == now + due_days

\* datetime.now() + timedelta(days=due_days)
due_date(due_days) == now + due_days * TicksPerDay

\* borrow_item without its guards: the loan is always recorded
borrow_item_unguarded(patron_id, item_id, due_days) ==
    [ret |-> TRUE,
     checked_out |-> [checked_out EXCEPT ![item_id] = TRUE],
     borrowed |-> Put(borrowed_items[patron_id], item_id, due_date(due_days))]

\* Patron.borrow_item: [ret, flags after, the patron's mapping after]
borrow_item(patron_id, item_id, due_days) ==
    IF checked_out[item_id] \/ item_id \in DOMAIN borrowed_items[patron_id]
    THEN [ret |-> FALSE, checked_out |-> checked_out,
          borrowed |-> borrowed_items[patron_id]]
    ELSE LET co == check_out(checked_out, item_id)
         IN  IF co.ret
             THEN [ret |-> TRUE, checked_out |-> co.checked_out,
                   borrowed |-> Put(borrowed_items[patron_id], item_id,
                                    due_date(due_days))]
             ELSE [ret |-> FALSE, checked_out |-> co.checked_out,
                   borrowed |-> borrowed_items[patron_id]]

\* days late with a started day counted as a whole one
days_late_rounded_up(due) == (now - due + TicksPerDay - 1) \div TicksPerDay

\* (datetime.now() - due).days for a positive difference: whole days
days_late(due) == (now - due) \div TicksPerDay

\* the late fee of a return at the current time
late_fee(due) == IF now > due THEN days_late(due) * LateFeePerDay ELSE 0

\* return_item that forgets item.check_in()
patron_return_item_no_check_in(patron_id, item_id) ==
    IF item_id \notin DOMAIN borrowed_items[patron_id]
    THEN [ret |-> FALSE, fine |-> 0, checked_out |-> checked_out,
          borrowed |-> borrowed_items[patron_id],
          fine_amount |-> fine_amount[patron_id]]
    ELSE LET due == borrowed_items[patron_id][item_id]
             fine == late_fee(due)
         IN  [ret |-> TRUE, fine |-> fine,
              checked_out |-> checked_out,
              borrowed |-> Del(borrowed_items[patron_id], item_id),
              fine_amount |-> fine_amount[patron_id] + fine]

\* return_item that reports the fine without charging it
patron_return_item_fine_not_charged(patron_id, item_id) ==
    IF item_id \notin DOMAIN borrowed_items[patron_id]
    THEN [ret |-> FALSE, fine |-> 0, checked_out |-> checked_out,
          borrowed |-> borrowed_items[patron_id],
          fine_amount |-> fine_amount[patron_id]]
    ELSE LET due == borrowed_items[patron_id][item_id]
             fine == late_fee(due)
         IN  [ret |-> TRUE, fine |-> fine,
              checked_out |-> check_in(checked_out, item_id).checked_out,
              borrowed |-> Del(borrowed_items[patron_id], item_id),
              fine_amount |-> fine_amount[patron_id]]

\* return_item that forgets to delete the entry of the borrowed mapping
patron_return_item_keeps_entry(patron_id, item_id) ==
    IF item_id \notin DOMAIN borrowed_items[patron_id]
    THEN [ret |-> FALSE, fine |-> 0, checked_out |-> checked_out,
          borrowed |-> borrowed_items[patron_id],
          fine_amount |-> fine_amount[patron_id]]
    ELSE LET due == borrowed_items[patron_id][item_id]
             fine == late_fee(due)
         IN  [ret |-> TRUE, fine |-> fine,
              checked_out |-> check_in(checked_out, item_id).checked_out,
              borrowed |-> borrowed_items[patron_id],
              fine_amount |-> fine_amount[patron_id] + fine]

\* Patron.return_item: [ret, fine, flags, the patron's mapping and fine after]
patron_return_item(patron_id, item_id) ==
    IF item_id \notin DOMAIN borrowed_items[patron_id]
    THEN [ret |-> FALSE, fine |-> 0, checked_out |-> checked_out,
          borrowed |-> borrowed_items[patron_id],
          fine_amount |-> fine_amount[patron_id]]
    ELSE LET due == borrowed_items[patron_id][item_id]
             fine == late_fee(due)
         IN  [ret |-> TRUE, fine |-> fine,
              checked_out |-> check_in(checked_out, item_id).checked_out,
              borrowed |-> Del(borrowed_items[patron_id], item_id),
              fine_amount |-> fine_amount[patron_id] + fine]

\* pay_fine that refuses a payment of the whole fine
patron_pay_fine_rejects_full(patron_id, amount) ==
    IF amount <= 0 \/ amount >= fine_amount[patron_id]
    THEN [ret |-> FALSE, fine_amount |-> fine_amount[patron_id]]
    ELSE [ret |-> TRUE, fine_amount |-> fine_amount[patron_id] - amount]

\* pay_fine without the limit of the current fine
patron_pay_fine_no_limit(patron_id, amount) ==
    IF amount <= 0
    THEN [ret |-> FALSE, fine_amount |-> fine_amount[patron_id]]
    ELSE [ret |-> TRUE, fine_amount |-> fine_amount[patron_id] - amount]

\* Patron.pay_fine: [ret, the patron's fine after]
patron_pay_fine(patron_id, amount) ==
    IF amount <= 0 \/ amount > fine_amount[patron_id]
    THEN [ret |-> FALSE, fine_amount |-> fine_amount[patron_id]]
    ELSE [ret |-> TRUE, fine_amount |-> fine_amount[patron_id] - amount]

\* ----------------------------------------------------------------- search
\* the upper-case letters in use, each with its lower-case letter
LetterCases == {<<"P", "p">>, <<"Y", "y">>, <<"T", "t">>, <<"A", "a">>}

\* str.lower of one character
lower_char(c) ==
    IF \E uc \in LetterCases : uc[1] = c
    THEN (CHOOSE uc \in LetterCases : uc[1] = c)[2]
    ELSE c

\* str.lower without the conversion
lower_as_is(s) == s

\* str.lower
lower(s) == [k \in 1..Len(s) |-> lower_char(s[k])]

\* sub is at the start of s
startswith(s, sub) ==
    /\ Len(sub) <= Len(s)
    /\ SubSeq(s, 1, Len(sub)) = sub

\* sub in s, of two str
RECURSIVE str_contains(_, _)
str_contains(s, sub) ==
    IF startswith(s, sub) THEN TRUE
    ELSE IF s = <<>> THEN FALSE
    ELSE str_contains(Tail(s), sub)

\* a == b: numbers by value, whatever their type; str with str
py_eq(a, b) ==
    IF {a.type, b.type} \subseteq {"int", "bool"}
    THEN a.num = b.num
    ELSE a.type = b.type /\ a.chars = b.chars

\* the body of the inner loop of search_items: the criterion leaves match
\* True
criterion_holds(item_id, key, value) ==
    IF key = "checked_out"
    THEN py_eq(bool(checked_out[item_id]), value)
    ELSE IF hasattr(item_id, key)
         THEN LET item_value == getattr(item_id, key)
              IN  IF item_value.type = "str" /\ value.type = "str"
                  THEN str_contains(lower(item_value.chars), lower(value.chars))
                  ELSE py_eq(item_value, value)
         ELSE FALSE

\* the inner loop of search_items over kwargs.items(), from the k-th on:
\* the first criterion that fails breaks with match False
RECURSIVE match(_, _, _)
match(item_id, kwargs, k) ==
    IF k > Len(kwargs) THEN TRUE
    ELSE IF ~criterion_holds(item_id, kwargs[k][1], kwargs[k][2]) THEN FALSE
    ELSE match(item_id, kwargs, k + 1)

\* the outer loop of search_items: results
search_results(kwargs) == SelectSeq(items, LAMBDA item_id : match(item_id, kwargs, 1))

\* -------------------------------------------------------------- analytics
\* checkout_counts[item_id] = checkout_counts.get(item_id, 0) + 1, the dict
\* being the sequence of its <<key, value>> pairs in insertion order
counted(counts, item_id) ==
    IF \E k \in 1..Len(counts) : counts[k][1] = item_id
    THEN [k \in 1..Len(counts) |->
            IF counts[k][1] = item_id THEN <<item_id, counts[k][2] + 1>>
            ELSE counts[k]]
    ELSE Append(counts, <<item_id, 1>>)

\* the first loop of get_popular_items, over the first n transactions
RECURSIVE checkout_counts(_)
checkout_counts(n) ==
    IF n = 0 THEN <<>>
    ELSE IF transaction_log[n].type = "check_out"
         THEN counted(checkout_counts(n - 1), transaction_log[n].details.item_id)
         ELSE checkout_counts(n - 1)

\* the second loop of get_popular_items: the pairs whose item get_item finds
popular_items ==
    SelectSeq(checkout_counts(Len(transaction_log)),
              LAMBDA pair : pair[1] \in Range(items))

\* the place of one more pair in a sorted list, ahead of the pairs of equal
\* count
placed_before_equal(list, pair) ==
    LET n == Cardinality({k \in 1..Len(list) : list[k][2] > pair[2]})
    IN  SubSeq(list, 1, n) \o <<pair>> \o SubSeq(list, n + 1, Len(list))

\* the place of one more pair in a sorted list: behind the pairs whose count
\* is not lower (the sort is stable, reverse=True included)
placed(list, pair) ==
    LET n == Cardinality({k \in 1..Len(list) : list[k][2] >= pair[2]})
    IN  SubSeq(list, 1, n) \o <<pair>> \o SubSeq(list, n + 1, Len(list))

\* list.sort(key=lambda x: x[1], reverse=True)
RECURSIVE sort_by_count(_)
sort_by_count(list) ==
    IF list = <<>> THEN <<>>
    ELSE placed(sort_by_count(SubSeq(list, 1, Len(list) - 1)), list[Len(list)])

\* list[:limit]
slice_to(list, limit) ==
    IF limit >= 0
    THEN SubSeq(list, 1, IF limit < Len(list) THEN limit ELSE Len(list))
    ELSE SubSeq(list, 1, IF Len(list) + limit > 0 THEN Len(list) + limit ELSE 0)

\* the keys of a dict as dict.items() goes through them, each once (the
\* order of insertion is not kept by the model: some fixed order)
RECURSIVE dict_keys(_)
dict_keys(d) ==
    IF DOMAIN d = {} THEN <<>>
    ELSE LET key == CHOOSE k \in DOMAIN d : TRUE
         IN  <<key>> \o dict_keys(Del(d, key))

\* the overdue test that takes the due moment itself as late
is_overdue_when_due(due) == now >= due

\* now > due_date
is_overdue(due) == now > due

\* the inner loop of get_overdue_items: patron_overdue
patron_overdue(patron_id) ==
    LET borrowed == borrowed_items[patron_id]
        pairs == [k \in 1..Len(dict_keys(borrowed)) |->
                    <<dict_keys(borrowed)[k], borrowed[dict_keys(borrowed)[k]]>>]
    IN  SelectSeq(pairs, LAMBDA pair : is_overdue(pair[2]) /\ pair[1] \in Range(items))

\* the outer loop of get_overdue_items: overdue_items, the dict being the
\* sequence of its <<key, value>> pairs
overdue_items ==
    SelectSeq([k \in 1..Len(patrons) |-> <<patrons[k], patron_overdue(patrons[k])>>],
              LAMBDA entry : entry[2] # <<>>)

\* ---------------------------------------------------------------- Subject
\* attach without the membership test
attached_always(list, observer) == Append(list, observer)

\* Subject.attach: the observer list after the call
attached(list, observer) ==
    IF observer \notin Range(list) THEN Append(list, observer) ELSE list

\* list.remove(x): the list without its first x, or ValueError
RECURSIVE list_remove(_, _)
list_remove(list, x) ==
    IF list = <<>> THEN [ValueError |-> TRUE, list |-> list]
    ELSE IF Head(list) = x THEN [ValueError |-> FALSE, list |-> Tail(list)]
    ELSE LET rest == list_remove(Tail(list), x)
         IN  [ValueError |-> rest.ValueError,
              list |-> <<Head(list)>> \o rest.list]

\* Subject.detach: the observer list after the call; ValueError is passed over
detached(list, observer) ==
    LET r == list_remove(list, observer)
    IN  IF r.ValueError THEN list ELSE r.list

\* Subject.notify: update() of each observer in list order; an update() that
\* raises ends the loop.  [inbox after, raised, delivered]
RECURSIVE notify_from(_, _, _)
notify_from(k, boxes, message) ==
    IF k > Len(observers)
    THEN [inbox |-> boxes, raised |-> FALSE, delivered |-> <<>>]
    ELSE IF observers[k] \in failing
         THEN [inbox |-> boxes, raised |-> TRUE, delivered |-> <<>>]
         ELSE LET rest == notify_from(k + 1,
                              [boxes EXCEPT ![observers[k]] = Append(@, message)],
                              message)
              IN  [rest EXCEPT !.delivered = <<observers[k]>> \o @]

\* notify that passes over the first observer of the list
notify_from_second(message) == notify_from(2, inbox, message)

notify(message) == notify_from(1, inbox, message)

\* LibrarySystem._log_transaction: the record appended
transaction(transaction_type, details) ==
    [type |-> transaction_type, details |-> details]

\* _log_transaction that starts a new list instead of appending
log_transaction_restarts(transaction_type, details) ==
    <<transaction(transaction_type, details)>>

\* _log_transaction that leaves the returns out
log_transaction_without_returns(transaction_type, details) ==
    IF transaction_type = "return_item" THEN transaction_log
    ELSE Append(transaction_log, transaction(transaction_type, details))

\* LibrarySystem._log_transaction: the log after the call
log_transaction(transaction_type, details) ==
    Append(transaction_log, transaction(transaction_type, details))

\* what a call that does not notify reports of notify
Unnotified == [raised |-> FALSE, delivered |-> <<>>]

\* the record of a call in last
\* raised: an update() raised; delivered: the observers whose update() ran
\* to its end during the call, in the order of the calls
Call(op, patron_id, item_id, ret, fine, notified) ==
    [op |-> op, patron_id |-> patron_id, item_id |-> item_id,
     ret |-> ret, fine |-> fine, raised |-> notified.raised,
     delivered |-> notified.delivered]

\* the record of a call of a read-only method with its argument
Query(op, arg, ret) ==
    [op |-> op, patron_id |-> None, item_id |-> None, ret |-> ret, fine |-> 0,
     raised |-> FALSE, delivered |-> <<>>, arg |-> arg]

\* -------------------------------------------------------- stack tutorial
\* the record of a call on a tutorial object.  arg: the tuple of the
\* arguments; ret: <<v>> for the value v returned, <<>> for None, and a list
\* returned is the sequence of its elements; raised: the exception that
\* left the call, or None
Returned(op, arg, ret) == [op |-> op, arg |-> arg, ret |-> ret, raised |-> None]
Raised(op, arg, exception) ==
    [op |-> op, arg |-> arg, ret |-> <<>>, raised |-> exception]

\* the loop of _shift_stacks: stack_oldest.append(stack_newest.pop()) while
\* stack_newest is not empty
RECURSIVE shifted(_, _)
shifted(newest, oldest) ==
    IF newest = <<>> THEN [newest |-> newest, oldest |-> oldest]
    ELSE shifted(SubSeq(newest, 1, Len(newest) - 1),
                 Append(oldest, newest[Len(newest)]))

\* _shift_stacks without the test of stack_oldest
shift_stacks_always(newest, oldest) == shifted(newest, oldest)

\* TwoStackQueue._shift_stacks: the two stacks after the call
shift_stacks(newest, oldest) ==
    IF oldest = <<>> THEN shifted(newest, oldest)
    ELSE [newest |-> newest, oldest |-> oldest]

\* the loop of __str__ over temp_oldest: queue_items.insert(0, temp_oldest.pop())
RECURSIVE inserted_at_front(_, _)
inserted_at_front(queue_items, temp_oldest) ==
    IF temp_oldest = <<>> THEN queue_items
    ELSE inserted_at_front(<<temp_oldest[Len(temp_oldest)]>> \o queue_items,
                           SubSeq(temp_oldest, 1, Len(temp_oldest) - 1))

\* reversed(list)
reversed(list) == [k \in 1..Len(list) |-> list[Len(list) + 1 - k]]

\* the state of the tutorial objects after their construction
NoObject == 0
NoThread == 0
Threads == 1 .. MaxThreads

NewTutorialObjects ==
    /\ stack_newest = <<>>
    /\ stack_oldest = <<>>
    /\ enqueued = <<>>
    /\ dequeued = 0
    /\ stack = <<>>
    /\ min_stack = <<>>
    /\ queue = <<>>
    /\ index = 0
    /\ pops = 0
    /\ _instance = NoObject
    /\ _lock = NoThread
    /\ objects = <<>>
    /\ pc = [t \in Threads |-> "idle"]
    /\ returned = [t \in Threads |-> NoObject]
    /\ calls = [t \in Threads |-> 0]
    /\ inits = 0
    /\ result = Returned("init", <<>>, <<>>)

\* ---------------------------------------------------------------- initial
Init ==
    /\ items = <<>>
    /\ checked_out = [i \in ItemIds |-> FALSE]
    /\ patrons = <<>>
    /\ borrowed_items = [p \in PatronIds |-> EmptyDict]
    /\ fine_amount = [p \in PatronIds |-> 0]
    /\ librarians = <<>>
    /\ transaction_log = <<>>
    /\ observers = <<"email", "sms">>
    /\ inbox = [o \in ObserverIds |-> <<>>]
    /\ failing = {}
    /\ now = 0
    /\ last = Call("init", None, None, TRUE, 0, Unnotified)
    /\ paid = [p \in PatronIds |-> 0]
    /\ log_cap = MaxLog
    /\ NewTutorialObjects

\* ------------------------------------------------------------- operations
\* Subject.attach
attach(observer) ==
    /\ observers' = attached(observers, observer)
    /\ last' = Call("attach", observer, None, TRUE, 0, Unnotified)
    /\ UNCHANGED <<items, checked_out, patrons, borrowed_items, fine_amount,
                   librarians, transaction_log, inbox, config, now, paid>>

\* Subject.detach
detach(observer) ==
    /\ observers' = detached(observers, observer)
    /\ last' = Call("detach", observer, None, TRUE, 0, Unnotified)
    /\ UNCHANGED <<items, checked_out, patrons, borrowed_items, fine_amount,
                   librarians, transaction_log, inbox, config, now, paid>>

\* add_item without the test of the id: the new item replaces the old one
add_item_overwrites(item_id) ==
    LET n == notify([text |-> "New item added", title |-> title(item_id)])
    IN  /\ Len(transaction_log) < log_cap
        /\ items' = IF item_id \in Range(items) THEN items
                     ELSE Append(items, item_id)
        /\ checked_out' = [checked_out EXCEPT ![item_id] = FALSE]
        /\ transaction_log' = log_transaction("add_item", [item_id |-> item_id])
        /\ inbox' = n.inbox
        /\ last' = Call("add_item", None, item_id, TRUE, 0, n)
        /\ UNCHANGED <<patrons, borrowed_items, fine_amount, librarians,
                       observers, config, now, paid>>

\* LibrarySystem.add_item, of a new item object (not checked out)
add_item(item_id) ==
    IF item_id \in Range(items)
    THEN /\ last' = Call("add_item", None, item_id, FALSE, 0, Unnotified)
         /\ UNCHANGED <<library, config, now, paid>>
    ELSE LET n == notify([text |-> "New item added", title |-> title(item_id)])
         IN  /\ Len(transaction_log) < log_cap
             /\ items' = Append(items, item_id)
             /\ transaction_log' = log_transaction("add_item", [item_id |-> item_id])
             /\ inbox' = n.inbox
             /\ last' = Call("add_item", None, item_id, TRUE, 0, n)
             /\ UNCHANGED <<checked_out, patrons, borrowed_items, fine_amount,
                            librarians, observers, config, now, paid>>

\* remove_item without the test of is_checked_out
remove_item_unguarded(item_id) ==
    IF item_id \notin Range(items)
    THEN /\ last' = Call("remove_item", None, item_id, FALSE, 0, Unnotified)
         /\ UNCHANGED <<library, config, now, paid>>
    ELSE LET n == notify([text |-> "Item removed", title |-> title(item_id)])
         IN  /\ Len(transaction_log) < log_cap
             /\ items' = Remove(items, item_id)
             /\ transaction_log' = log_transaction("remove_item", [item_id |-> item_id])
             /\ inbox' = n.inbox
             /\ last' = Call("remove_item", None, item_id, TRUE, 0, n)
             /\ UNCHANGED <<checked_out, patrons, borrowed_items, fine_amount,
                            librarians, observers, config, now, paid>>

\* LibrarySystem.remove_item
remove_item(item_id) ==
    IF item_id \notin Range(items) \/ checked_out[item_id]
    THEN /\ last' = Call("remove_item", None, item_id, FALSE, 0, Unnotified)
         /\ UNCHANGED <<library, config, now, paid>>
    ELSE LET n == notify([text |-> "Item removed", title |-> title(item_id)])
         IN  /\ Len(transaction_log) < log_cap
             /\ items' = Remove(items, item_id)
             /\ transaction_log' = log_transaction("remove_item", [item_id |-> item_id])
             /\ inbox' = n.inbox
             /\ last' = Call("remove_item", None, item_id, TRUE, 0, n)
             /\ UNCHANGED <<checked_out, patrons, borrowed_items, fine_amount,
                            librarians, observers, config, now, paid>>

\* register_patron without the test of the id
register_patron_overwrites(patron_id) ==
    LET n == notify([text |-> "New patron registered", name |-> name(patron_id)])
    IN  /\ Len(transaction_log) < log_cap
        /\ patrons' = IF patron_id \in Range(patrons) THEN patrons
                       ELSE Append(patrons, patron_id)
        /\ transaction_log' = log_transaction("register_patron", [patron_id |-> patron_id])
        /\ inbox' = n.inbox
        /\ last' = Call("register_patron", patron_id, None, TRUE, 0, n)
        /\ UNCHANGED <<items, checked_out, borrowed_items, fine_amount,
                       librarians, observers, config, now, paid>>

\* LibrarySystem.register_patron, of a new patron object
register_patron(patron_id) ==
    IF patron_id \in Range(patrons)
    THEN /\ last' = Call("register_patron", patron_id, None, FALSE, 0, Unnotified)
         /\ UNCHANGED <<library, config, now, paid>>
    ELSE LET n == notify([text |-> "New patron registered",
                          name |-> name(patron_id)])
         IN  /\ Len(transaction_log) < log_cap
             /\ patrons' = Append(patrons, patron_id)
             /\ transaction_log' = log_transaction("register_patron", [patron_id |-> patron_id])
             /\ inbox' = n.inbox
             /\ last' = Call("register_patron", patron_id, None, TRUE, 0, n)
             /\ UNCHANGED <<items, checked_out, borrowed_items, fine_amount,
                            librarians, observers, config, now, paid>>

\* LibrarySystem.add_librarian
add_librarian(librarian_id) ==
    IF librarian_id \in Range(librarians)
    THEN /\ last' = Call("add_librarian", librarian_id, None, FALSE, 0, Unnotified)
         /\ UNCHANGED <<library, config, now, paid>>
    ELSE /\ Len(transaction_log) < log_cap
         /\ librarians' = Append(librarians, librarian_id)
         /\ transaction_log' = log_transaction("add_librarian", [librarian_id |-> librarian_id])
         /\ last' = Call("add_librarian", librarian_id, None, TRUE, 0, Unnotified)
         /\ UNCHANGED <<items, checked_out, patrons, borrowed_items,
                        fine_amount, observers, inbox, config, now, paid>>

\* check_out_item whose "return True" is outside the if
check_out_item_always_true(patron_id, item_id, due_days) ==
    IF patron_id \notin Range(patrons) \/ item_id \notin Range(items)
    THEN /\ last' = Call("check_out_item", patron_id, item_id, FALSE, 0, Unnotified)
         /\ UNCHANGED <<library, config, now, paid>>
    ELSE LET b == borrow_item(patron_id, item_id, due_days)
             n == notify([text |-> "has borrowed", name |-> name(patron_id),
                          title |-> title(item_id)])
         IN  IF b.ret
             THEN /\ Len(transaction_log) < log_cap
                  /\ checked_out' = b.checked_out
                  /\ borrowed_items' =
                         [borrowed_items EXCEPT ![patron_id] = b.borrowed]
                  /\ transaction_log' = log_transaction("check_out",
                                     [patron_id |-> patron_id,
                                      item_id |-> item_id,
                                      due_days |-> due_days])
                  /\ inbox' = n.inbox
                  /\ last' = Call("check_out_item", patron_id, item_id, TRUE, 0, n)
                  /\ UNCHANGED <<items, patrons, fine_amount, librarians,
                                 observers, config, now, paid>>
             ELSE /\ checked_out' = b.checked_out
                  /\ borrowed_items' =
                         [borrowed_items EXCEPT ![patron_id] = b.borrowed]
                  /\ last' = Call("check_out_item", patron_id, item_id, TRUE, 0, Unnotified)
                  /\ UNCHANGED <<items, patrons, fine_amount, librarians,
                                 transaction_log, observers, inbox, config,
                                 now, paid>>

\* LibrarySystem.check_out_item
check_out_item(patron_id, item_id, due_days) ==
    IF patron_id \notin Range(patrons) \/ item_id \notin Range(items)
    THEN /\ last' = Call("check_out_item", patron_id, item_id, FALSE, 0, Unnotified)
         /\ UNCHANGED <<library, config, now, paid>>
    ELSE LET b == borrow_item(patron_id, item_id, due_days)
             n == notify([text |-> "has borrowed", name |-> name(patron_id),
                          title |-> title(item_id)])
         IN  IF b.ret
             THEN /\ Len(transaction_log) < log_cap
                  /\ checked_out' = b.checked_out
                  /\ borrowed_items' =
                         [borrowed_items EXCEPT ![patron_id] = b.borrowed]
                  /\ transaction_log' = log_transaction("check_out",
                                     [patron_id |-> patron_id,
                                      item_id |-> item_id,
                                      due_days |-> due_days])
                  /\ inbox' = n.inbox
                  /\ last' = Call("check_out_item", patron_id, item_id, TRUE, 0, n)
                  /\ UNCHANGED <<items, patrons, fine_amount, librarians,
                                 observers, config, now, paid>>
             ELSE /\ checked_out' = b.checked_out
                  /\ borrowed_items' =
                         [borrowed_items EXCEPT ![patron_id] = b.borrowed]
                  /\ last' = Call("check_out_item", patron_id, item_id, FALSE, 0, Unnotified)
                  /\ UNCHANGED <<items, patrons, fine_amount, librarians,
                                 transaction_log, observers, inbox, config,
                                 now, paid>>

\* the message LibrarySystem.return_item broadcasts
return_message(patron_id, item_id, fine) ==
    IF fine > 0
    THEN [text |-> "has returned", name |-> name(patron_id),
          title |-> title(item_id), late_fee |-> fine]
    ELSE [text |-> "has returned", name |-> name(patron_id),
          title |-> title(item_id)]

\* return_item that logs the call before it looks at the patron's result
return_item_logs_failure(patron_id, item_id) ==
    IF patron_id \notin Range(patrons) \/ item_id \notin Range(items)
    THEN /\ last' = Call("return_item", patron_id, item_id, FALSE, 0, Unnotified)
         /\ UNCHANGED <<library, config, now, paid>>
    ELSE LET r == patron_return_item(patron_id, item_id)
             n == notify(return_message(patron_id, item_id, r.fine))
         IN  /\ Len(transaction_log) < log_cap
             /\ checked_out' = r.checked_out
             /\ borrowed_items' =
                    [borrowed_items EXCEPT ![patron_id] = r.borrowed]
             /\ fine_amount' =
                    [fine_amount EXCEPT ![patron_id] = r.fine_amount]
             /\ transaction_log' = log_transaction("return_item",
                                [patron_id |-> patron_id,
                                 item_id |-> item_id,
                                 fine |-> r.fine])
             /\ inbox' = IF r.ret THEN n.inbox ELSE inbox
             /\ last' = Call("return_item", patron_id, item_id, r.ret,
                             r.fine, IF r.ret THEN n ELSE Unnotified)
             /\ UNCHANGED <<items, patrons, librarians, observers, config,
                            now, paid>>

\* LibrarySystem.return_item
return_item(patron_id, item_id) ==
    IF patron_id \notin Range(patrons) \/ item_id \notin Range(items)
    THEN /\ last' = Call("return_item", patron_id, item_id, FALSE, 0, Unnotified)
         /\ UNCHANGED <<library, config, now, paid>>
    ELSE LET r == patron_return_item(patron_id, item_id)
             n == notify(return_message(patron_id, item_id, r.fine))
         IN  IF r.ret
             THEN /\ Len(transaction_log) < log_cap
                  /\ checked_out' = r.checked_out
                  /\ borrowed_items' =
                         [borrowed_items EXCEPT ![patron_id] = r.borrowed]
                  /\ fine_amount' =
                         [fine_amount EXCEPT ![patron_id] = r.fine_amount]
                  /\ transaction_log' = log_transaction("return_item",
                                     [patron_id |-> patron_id,
                                      item_id |-> item_id,
                                      fine |-> r.fine])
                  /\ inbox' = n.inbox
                  /\ last' = Call("return_item", patron_id, item_id, TRUE, r.fine, n)
                  /\ UNCHANGED <<items, patrons, librarians, observers,
                                 config, now, paid>>
             ELSE /\ checked_out' = r.checked_out
                  /\ borrowed_items' =
                         [borrowed_items EXCEPT ![patron_id] = r.borrowed]
                  /\ fine_amount' =
                         [fine_amount EXCEPT ![patron_id] = r.fine_amount]
                  /\ last' = Call("return_item", patron_id, item_id, FALSE, 0, Unnotified)
                  /\ UNCHANGED <<items, patrons, librarians, transaction_log,
                                 observers, inbox, config, now, paid>>

\* Patron.pay_fine, on the patron object with this id
pay_fine(patron_id, amount) ==
    LET r == patron_pay_fine(patron_id, amount)
    IN  /\ fine_amount' = [fine_amount EXCEPT ![patron_id] = r.fine_amount]
        /\ paid' = IF r.ret THEN [paid EXCEPT ![patron_id] = @ + amount]
                   ELSE paid
        /\ last' = Call("pay_fine", patron_id, None, r.ret, 0, Unnotified)
        /\ UNCHANGED <<items, checked_out, patrons, borrowed_items, librarians,
                       transaction_log, observers, inbox, config, now>>

\* time passes between two calls
\* get_item by dict.pop instead of dict.get
get_item_popping(item_id) ==
    /\ last' = Query("get_item", item_id,
                     IF item_id \in Range(items) THEN item_id ELSE None)
    /\ items' = Remove(items, item_id)
    /\ UNCHANGED <<checked_out, patrons, borrowed_items, fine_amount,
                   librarians, transaction_log, observers, inbox, config, now,
                   paid>>

\* LibrarySystem.get_item: the item by its id, or None
get_item(item_id) ==
    /\ last' = Query("get_item", item_id,
                     IF item_id \in Range(items) THEN item_id ELSE None)
    /\ UNCHANGED <<library, config, now, paid>>

\* LibrarySystem.get_patron
get_patron(patron_id) ==
    /\ last' = Query("get_patron", patron_id,
                     IF patron_id \in Range(patrons) THEN patron_id ELSE None)
    /\ UNCHANGED <<library, config, now, paid>>

\* LibrarySystem.get_librarian
get_librarian(librarian_id) ==
    /\ last' = Query("get_librarian", librarian_id,
                     IF librarian_id \in Range(librarians) THEN librarian_id
                     ELSE None)
    /\ UNCHANGED <<library, config, now, paid>>

\* LibrarySystem.get_checked_out_items
get_checked_out_items ==
    /\ last' = Query("get_checked_out_items", None,
                     SelectSeq(items, LAMBDA item_id : checked_out[item_id]))
    /\ UNCHANGED <<library, config, now, paid>>

\* LibrarySystem.get_available_items
get_available_items ==
    /\ last' = Query("get_available_items", None,
                     SelectSeq(items, LAMBDA item_id : ~checked_out[item_id]))
    /\ UNCHANGED <<library, config, now, paid>>

\* LibrarySystem.search_items(**kwargs)
search_items(kwargs) ==
    /\ last' = Query("search_items", kwargs, search_results(kwargs))
    /\ UNCHANGED <<library, config, now, paid>>

\* LibrarySystem.get_popular_items(limit): the items by their ids
get_popular_items(limit) ==
    /\ last' = Query("get_popular_items", limit,
                     slice_to(sort_by_count(popular_items), limit))
    /\ UNCHANGED <<library, config, now, paid>>

\* LibrarySystem.get_overdue_items(): the items by their ids
get_overdue_items ==
    /\ last' = Query("get_overdue_items", None, overdue_items)
    /\ UNCHANGED <<library, config, now, paid>>

\* export_data without the except clause: the exception leaves the call
export_data_unguarded(exception) ==
    /\ last' = [Query("export_data", exception, exception = None)
                  EXCEPT !.raised = exception # None]
    /\ UNCHANGED <<library, config, now, paid>>

\* LibrarySystem.export_data(filename); exception: what the building of
\* data, open() or json.dump() raises, None when the file is written
export_data(exception) ==
    /\ last' = Query("export_data", exception, exception = None)
    /\ UNCHANGED <<library, config, now, paid>>

Tick ==
    /\ now < MaxTime
    /\ now' = now + 1
    /\ UNCHANGED <<library, config, last, paid>>

Next ==
    \/ \E i \in ItemIds : add_item(i)
    \/ \E i \in ItemIds : remove_item(i)
    \/ \E p \in PatronIds : register_patron(p)
    \/ \E l \in LibrarianIds : add_librarian(l)
    \/ \E p \in PatronIds, i \in ItemIds, d \in DueDays : check_out_item(p, i, d)
    \/ \E p \in PatronIds, i \in ItemIds : return_item(p, i)
    \/ \E p \in PatronIds, a \in Amounts : pay_fine(p, a)
    \/ Tick

Spec == Init /\ [][Next]_vars

\* ------------------------------------------------- the circulation desk
\* The library as main() sets it up before the first loan: both items added,
\* both patrons registered (reached in Spec by these four calls).
SetupLog ==
    << transaction("add_item", [item_id |-> "B1"]),
       transaction("add_item", [item_id |-> "B2"]),
       transaction("register_patron", [patron_id |-> "P1"]),
       transaction("register_patron", [patron_id |-> "P2"]) >>

SetupMessages ==
    << [text |-> "New item added", title |-> title("B1")],
       [text |-> "New item added", title |-> title("B2")],
       [text |-> "New patron registered", name |-> name("P1")],
       [text |-> "New patron registered", name |-> name("P2")] >>

InitLoans ==
    /\ items = <<"B1", "B2">>
    /\ checked_out = [i \in ItemIds |-> FALSE]
    /\ patrons = <<"P1", "P2">>
    /\ borrowed_items = [p \in PatronIds |-> EmptyDict]
    /\ fine_amount = [p \in PatronIds |-> 0]
    /\ librarians = <<>>
    /\ transaction_log = SetupLog
    /\ observers = <<"email", "sms">>
    /\ inbox = [o \in ObserverIds |-> SetupMessages]
    /\ failing = {}
    /\ now = 0
    /\ last = Call("register_patron", "P2", None, TRUE, 0,
                   [raised |-> FALSE, delivered |-> <<"email", "sms">>])
    /\ paid = [p \in PatronIds |-> 0]
    /\ log_cap = Len(SetupLog) + MaxLoans
    /\ NewTutorialObjects

NextLoans ==
    \/ \E p \in PatronIds, i \in ItemIds, d \in DueDays : check_out_item(p, i, d)
    \/ \E p \in PatronIds, i \in ItemIds : return_item(p, i)
    \/ \E p \in PatronIds, a \in Amounts : pay_fine(p, a)
    \/ Tick

SpecLoans == InitLoans /\ [][NextLoans]_vars

\* ------------------------------------------------- observers come and go
\* A new library without observers; attach and detach between the calls
\* that notify.
InitHub ==
    /\ items = <<>>
    /\ checked_out = [i \in ItemIds |-> FALSE]
    /\ patrons = <<>>
    /\ borrowed_items = [p \in PatronIds |-> EmptyDict]
    /\ fine_amount = [p \in PatronIds |-> 0]
    /\ librarians = <<>>
    /\ transaction_log = <<>>
    /\ observers = <<>>
    /\ inbox = [o \in ObserverIds |-> <<>>]
    /\ failing = {}
    /\ now = 0
    /\ last = Call("init", None, None, TRUE, 0, Unnotified)
    /\ paid = [p \in PatronIds |-> 0]
    /\ log_cap = MaxHubLog
    /\ NewTutorialObjects

NextHub ==
    \/ \E o \in ObserverIds : attach(o)
    \/ \E o \in ObserverIds : detach(o)
    \/ \E i \in ItemIds : add_item(i)
    \/ \E i \in ItemIds : remove_item(i)

SpecHub == InitHub /\ [][NextHub]_vars

\* The same library with observers whose update() raises.
InitFailingSink ==
    /\ items = <<>>
    /\ checked_out = [i \in ItemIds |-> FALSE]
    /\ patrons = <<>>
    /\ borrowed_items = [p \in PatronIds |-> EmptyDict]
    /\ fine_amount = [p \in PatronIds |-> 0]
    /\ librarians = <<>>
    /\ transaction_log = <<>>
    /\ observers = <<>>
    /\ inbox = [o \in ObserverIds |-> <<>>]
    /\ failing \in SUBSET ObserverIds \ {{}}
    /\ now = 0
    /\ last = Call("init", None, None, TRUE, 0, Unnotified)
    /\ paid = [p \in PatronIds |-> 0]
    /\ log_cap = MaxHubLog
    /\ NewTutorialObjects

SpecFailingSink == InitFailingSink /\ [][NextHub]_vars

\* ------------------------------------------------------ the search desk
\* keyword arguments: names and values
SearchKeys == <<"title", "year", "checked_out">>
SearchValues == {str(<<"p", "Y">>), int(2020), bool(TRUE), bool(FALSE)}

\* kwargs.items(): pairs of a name and a value, no name twice; the calls
\* give the names in the order of SearchKeys
Criteria ==
    UNION {{[k \in 1..n |-> <<SearchKeys[c[k][1]], c[k][2]>>] :
               c \in {d \in [1..n -> (1..Len(SearchKeys)) \X SearchValues] :
                          \A j \in 1..(n - 1) : d[j][1] < d[j + 1][1]}}
           : n \in 0..MaxCriteria}

\* The library after the setup of main(); searches between check-outs,
\* returns and removals.
InitSearch ==
    /\ items = <<"B1", "B2">>
    /\ checked_out = [i \in ItemIds |-> FALSE]
    /\ patrons = <<"P1", "P2">>
    /\ borrowed_items = [p \in PatronIds |-> EmptyDict]
    /\ fine_amount = [p \in PatronIds |-> 0]
    /\ librarians = <<>>
    /\ transaction_log = SetupLog
    /\ observers = <<"email", "sms">>
    /\ inbox = [o \in ObserverIds |-> SetupMessages]
    /\ failing = {}
    /\ now = 0
    /\ last = Call("register_patron", "P2", None, TRUE, 0,
                   [raised |-> FALSE, delivered |-> <<"email", "sms">>])
    /\ paid = [p \in PatronIds |-> 0]
    /\ log_cap = Len(SetupLog) + MaxSearchLog
    /\ NewTutorialObjects

NextSearch ==
    \/ \E p \in PatronIds, i \in ItemIds, d \in DueDays : check_out_item(p, i, d)
    \/ \E p \in PatronIds, i \in ItemIds : return_item(p, i)
    \/ \E i \in ItemIds : remove_item(i)
    \/ \E c \in Criteria : search_items(c)

SpecSearch == InitSearch /\ [][NextSearch]_vars

\* --------------------------------------------------- the popularity count
Limits == {-1, 0, 1, 2}

\* The library after the setup of main(); the count of the check-outs
\* between check-outs with the default loan period, returns and removals.
InitPopular ==
    /\ items = <<"B1", "B2">>
    /\ checked_out = [i \in ItemIds |-> FALSE]
    /\ patrons = <<"P1", "P2">>
    /\ borrowed_items = [p \in PatronIds |-> EmptyDict]
    /\ fine_amount = [p \in PatronIds |-> 0]
    /\ librarians = <<>>
    /\ transaction_log = SetupLog
    /\ observers = <<"email", "sms">>
    /\ inbox = [o \in ObserverIds |-> SetupMessages]
    /\ failing = {}
    /\ now = 0
    /\ last = Call("register_patron", "P2", None, TRUE, 0,
                   [raised |-> FALSE, delivered |-> <<"email", "sms">>])
    /\ paid = [p \in PatronIds |-> 0]
    /\ log_cap = Len(SetupLog) + MaxPopularLog
    /\ NewTutorialObjects

NextPopular ==
    \/ \E p \in PatronIds, i \in ItemIds : check_out_item(p, i, DefaultDueDays)
    \/ \E p \in PatronIds, i \in ItemIds : return_item(p, i)
    \/ \E i \in ItemIds : remove_item(i)
    \/ \E n \in Limits : get_popular_items(n)

SpecPopular == InitPopular /\ [][NextPopular]_vars

\* ------------------------------------------------------ the overdue report
\* The library after the setup of main(); the report between check-outs,
\* returns and the passing of time.
InitOverdue ==
    /\ items = <<"B1", "B2">>
    /\ checked_out = [i \in ItemIds |-> FALSE]
    /\ patrons = <<"P1", "P2">>
    /\ borrowed_items = [p \in PatronIds |-> EmptyDict]
    /\ fine_amount = [p \in PatronIds |-> 0]
    /\ librarians = <<>>
    /\ transaction_log = SetupLog
    /\ observers = <<"email", "sms">>
    /\ inbox = [o \in ObserverIds |-> SetupMessages]
    /\ failing = {}
    /\ now = 0
    /\ last = Call("register_patron", "P2", None, TRUE, 0,
                   [raised |-> FALSE, delivered |-> <<"email", "sms">>])
    /\ paid = [p \in PatronIds |-> 0]
    /\ log_cap = Len(SetupLog) + MaxOverdueLog
    /\ NewTutorialObjects

NextOverdue ==
    \/ \E p \in PatronIds, i \in ItemIds, d \in DueDays : check_out_item(p, i, d)
    \/ \E p \in PatronIds, i \in ItemIds : return_item(p, i)
    \/ get_overdue_items
    \/ Tick

SpecOverdue == InitOverdue /\ [][NextOverdue]_vars

\* ----------------------------------------------------- the read-only calls
\* The library after the setup of main(); every read-only method between
\* check-outs, returns, the addition of the librarian and the passing of
\* time.
InitQueries ==
    /\ items = <<"B1", "B2">>
    /\ checked_out = [i \in ItemIds |-> FALSE]
    /\ patrons = <<"P1", "P2">>
    /\ borrowed_items = [p \in PatronIds |-> EmptyDict]
    /\ fine_amount = [p \in PatronIds |-> 0]
    /\ librarians = <<>>
    /\ transaction_log = SetupLog
    /\ observers = <<"email", "sms">>
    /\ inbox = [o \in ObserverIds |-> SetupMessages]
    /\ failing = {}
    /\ now = 0
    /\ last = Call("register_patron", "P2", None, TRUE, 0,
                   [raised |-> FALSE, delivered |-> <<"email", "sms">>])
    /\ paid = [p \in PatronIds |-> 0]
    /\ log_cap = Len(SetupLog) + MaxQueryLog
    /\ NewTutorialObjects

NextQueries ==
    \/ \E p \in PatronIds, i \in ItemIds : check_out_item(p, i, 0)
    \/ \E p \in PatronIds, i \in ItemIds : return_item(p, i)
    \/ \E l \in LibrarianIds : add_librarian(l)
    \/ Tick
    \/ \E i \in ItemIds : get_item(i)
    \/ \E p \in PatronIds : get_patron(p)
    \/ \E l \in LibrarianIds : get_librarian(l)
    \/ \E c \in Criteria : search_items(c)
    \/ get_checked_out_items
    \/ get_available_items
    \/ get_overdue_items
    \/ \E n \in Limits : get_popular_items(n)

SpecQueries == InitQueries /\ [][NextQueries]_vars

\* -------------------------------------------------------------- the export
\* what the try block of export_data can raise: the file cannot be opened
\* or written, a value cannot be serialized
ExportExceptions == {"OSError", "TypeError"}

\* The library after the setup of main(); exports between check-outs,
\* returns and the addition of the librarian.
InitExport ==
    /\ items = <<"B1", "B2">>
    /\ checked_out = [i \in ItemIds |-> FALSE]
    /\ patrons = <<"P1", "P2">>
    /\ borrowed_items = [p \in PatronIds |-> EmptyDict]
    /\ fine_amount = [p \in PatronIds |-> 0]
    /\ librarians = <<>>
    /\ transaction_log = SetupLog
    /\ observers = <<"email", "sms">>
    /\ inbox = [o \in ObserverIds |-> SetupMessages]
    /\ failing = {}
    /\ now = 0
    /\ last = Call("register_patron", "P2", None, TRUE, 0,
                   [raised |-> FALSE, delivered |-> <<"email", "sms">>])
    /\ paid = [p \in PatronIds |-> 0]
    /\ log_cap = Len(SetupLog) + MaxExportLog
    /\ NewTutorialObjects

NextExport ==
    \/ \E p \in PatronIds, i \in ItemIds, d \in DueDays : check_out_item(p, i, d)
    \/ \E p \in PatronIds, i \in ItemIds : return_item(p, i)
    \/ \E l \in LibrarianIds : add_librarian(l)
    \/ \E e \in ExportExceptions \cup {None} : export_data(e)

SpecExport == InitExport /\ [][NextExport]_vars

\* -------------------------------------------------------------- the ledger
\* The library after the setup of main(); every logged call, items removed
\* and added again under their ids.
InitLedger ==
    /\ items = <<"B1", "B2">>
    /\ checked_out = [i \in ItemIds |-> FALSE]
    /\ patrons = <<"P1", "P2">>
    /\ borrowed_items = [p \in PatronIds |-> EmptyDict]
    /\ fine_amount = [p \in PatronIds |-> 0]
    /\ librarians = <<>>
    /\ transaction_log = SetupLog
    /\ observers = <<"email", "sms">>
    /\ inbox = [o \in ObserverIds |-> SetupMessages]
    /\ failing = {}
    /\ now = 0
    /\ last = Call("register_patron", "P2", None, TRUE, 0,
                   [raised |-> FALSE, delivered |-> <<"email", "sms">>])
    /\ paid = [p \in PatronIds |-> 0]
    /\ log_cap = Len(SetupLog) + MaxLedgerLog
    /\ NewTutorialObjects

NextLedger ==
    \/ \E i \in ItemIds : add_item(i)
    \/ \E i \in ItemIds : remove_item(i)
    \/ \E p \in PatronIds : register_patron(p)
    \/ \E l \in LibrarianIds : add_librarian(l)
    \/ \E p \in PatronIds, i \in ItemIds : check_out_item(p, i, DefaultDueDays)
    \/ \E p \in PatronIds, i \in ItemIds : return_item(p, i)

SpecLedger == InitLedger /\ [][NextLedger]_vars

\* ------------------------------------------------------- the TwoStackQueue
\* what the tutorial calls leave alone
library_system == <<library, failing, log_cap, now, last, paid>>

QueueValues == {1, 2, 3}

\* TwoStackQueue.enqueue
enqueue(v) ==
    /\ Len(enqueued) < MaxEnqueues
    /\ stack_newest' = Append(stack_newest, v)
    /\ enqueued' = Append(enqueued, v)
    /\ result' = Returned("enqueue", <<v>>, <<>>)
    /\ UNCHANGED <<library_system, stack_oldest, dequeued, stack, min_stack, priority_queue,
                   thread_safe_singleton>>

\* TwoStackQueue.dequeue
dequeue ==
    LET s == shift_stacks(stack_newest, stack_oldest)
    IN  /\ stack_newest' = s.newest
        /\ IF s.oldest = <<>>
           THEN /\ stack_oldest' = s.oldest
                /\ result' = Raised("dequeue", <<>>, "IndexError")
                /\ UNCHANGED dequeued
           ELSE /\ stack_oldest' = SubSeq(s.oldest, 1, Len(s.oldest) - 1)
                /\ result' = Returned("dequeue", <<>>, <<s.oldest[Len(s.oldest)]>>)
                /\ dequeued' = dequeued + 1
        /\ UNCHANGED <<library_system, enqueued, stack, min_stack, priority_queue,
                   thread_safe_singleton>>

\* TwoStackQueue.peek
peek ==
    LET s == shift_stacks(stack_newest, stack_oldest)
    IN  /\ stack_newest' = s.newest
        /\ stack_oldest' = s.oldest
        /\ result' = Returned("peek", <<>>,
                              IF s.oldest = <<>> THEN <<>>
                              ELSE <<s.oldest[Len(s.oldest)]>>)
        /\ UNCHANGED <<library_system, enqueued, dequeued, stack, min_stack, priority_queue,
                   thread_safe_singleton>>

\* TwoStackQueue.is_empty
is_empty == stack_newest = <<>> /\ stack_oldest = <<>>

\* TwoStackQueue.size
size ==
    /\ result' = Returned("size", <<>>, <<Len(stack_newest) + Len(stack_oldest)>>)
    /\ UNCHANGED <<library_system, two_stack_queue, stack, min_stack, priority_queue,
                   thread_safe_singleton>>

\* TwoStackQueue.__str__: the list it formats
queue_str ==
    /\ result' = Returned("__str__", <<>>,
                          IF is_empty THEN <<>>
                          ELSE inserted_at_front(<<>>, stack_oldest)
                               \o reversed(stack_newest))
    /\ UNCHANGED <<library_system, two_stack_queue, stack, min_stack, priority_queue,
                   thread_safe_singleton>>

NextQueue ==
    \/ \E v \in QueueValues : enqueue(v)
    \/ dequeue
    \/ peek
    \/ size
    \/ queue_str

SpecQueue == Init /\ [][NextQueue]_vars

\* ------------------------------------------------------------ the MinStack
StackValues == {1, 2, 3}

\* list[-1]
top_of(list) == list[Len(list)]

\* list after list.pop()
popped(list) == SubSeq(list, 1, Len(list) - 1)

\* push that takes only a value below the minimum onto min_stack
push_below_only(val) ==
    /\ Len(stack) < MaxStack
    /\ stack' = Append(stack, val)
    /\ min_stack' = IF min_stack = <<>> \/ val < top_of(min_stack)
                     THEN Append(min_stack, val)
                     ELSE min_stack
    /\ result' = Returned("push", <<val>>, <<>>)
    /\ UNCHANGED <<library_system, two_stack_queue, priority_queue,
                   thread_safe_singleton>>

\* MinStack.push
push(val) ==
    /\ Len(stack) < MaxStack
    /\ stack' = Append(stack, val)
    /\ min_stack' = IF min_stack = <<>> \/ val <= top_of(min_stack)
                     THEN Append(min_stack, val)
                     ELSE min_stack
    /\ result' = Returned("push", <<val>>, <<>>)
    /\ UNCHANGED <<library_system, two_stack_queue, priority_queue,
                   thread_safe_singleton>>

\* MinStack.pop
pop ==
    IF stack = <<>>
    THEN /\ result' = Returned("pop", <<>>, <<>>)
         /\ UNCHANGED <<library_system, two_stack_queue, stack, min_stack, priority_queue,
                   thread_safe_singleton>>
    ELSE /\ stack' = popped(stack)
         /\ min_stack' = IF min_stack # <<>> /\ top_of(stack) = top_of(min_stack)
                          THEN popped(min_stack)
                          ELSE min_stack
         /\ result' = Returned("pop", <<>>, <<top_of(stack)>>)
         /\ UNCHANGED <<library_system, two_stack_queue, priority_queue,
                   thread_safe_singleton>>

\* MinStack.top
top ==
    /\ result' = Returned("top", <<>>,
                          IF stack # <<>> THEN <<top_of(stack)>> ELSE <<>>)
    /\ UNCHANGED <<library_system, two_stack_queue, stack, min_stack, priority_queue,
                   thread_safe_singleton>>

\* MinStack.get_min
get_min ==
    /\ result' = Returned("get_min", <<>>,
                          IF min_stack # <<>> THEN <<top_of(min_stack)>> ELSE <<>>)
    /\ UNCHANGED <<library_system, two_stack_queue, stack, min_stack, priority_queue,
                   thread_safe_singleton>>

NextMinStack ==
    \/ \E v \in StackValues : push(v)
    \/ pop
    \/ top
    \/ get_min

SpecMinStack == Init /\ [][NextMinStack]_vars

\* ------------------------------------------------------ the PriorityQueue
QueueItems == {1, 2, 3}
Priorities == {1, 2}

\* a < b of two tuples that looks at the priority alone
lt_by_priority(a, b) == a[1] < b[1]

\* a < b of two (priority, index, item) tuples
lt(a, b) ==
    \/ a[1] < b[1]
    \/ a[1] = b[1] /\ a[2] < b[2]
    \/ a[1] = b[1] /\ a[2] = b[2] /\ a[3] < b[3]

\* heapq._siftdown, positions from 1: newitem moves from pos towards
\* startpos past every parent it is less than
RECURSIVE siftdown(_, _, _, _)
siftdown(heap, startpos, pos, newitem) ==
    IF pos > startpos /\ lt(newitem, heap[pos \div 2])
    THEN siftdown([heap EXCEPT ![pos] = heap[pos \div 2]], startpos,
                  pos \div 2, newitem)
    ELSE [heap EXCEPT ![pos] = newitem]

\* heapq._siftup, positions from 1: the smaller child moves up until a
\* leaf is reached, then newitem sifts down from there
RECURSIVE siftup(_, _, _, _)
siftup(heap, startpos, pos, newitem) ==
    LET childpos == 2 * pos
        rightpos == childpos + 1
        smaller == IF rightpos <= Len(heap) /\ ~lt(heap[childpos], heap[rightpos])
                   THEN rightpos ELSE childpos
    IN  IF childpos <= Len(heap)
        THEN siftup([heap EXCEPT ![pos] = heap[smaller]], startpos, smaller,
                    newitem)
        ELSE siftdown(heap, startpos, pos, newitem)

\* heapq.heappush: the heap after the call
heappush(heap, item) ==
    siftdown(Append(heap, item), 1, Len(heap) + 1, item)

\* heapq.heappop of a non-empty heap: [the item returned, the heap after]
heappop(heap) ==
    LET lastelt == heap[Len(heap)]
        rest == SubSeq(heap, 1, Len(heap) - 1)
    IN  IF rest # <<>>
        THEN [returnitem |-> rest[1], heap |-> siftup(rest, 1, 1, lastelt)]
        ELSE [returnitem |-> lastelt, heap |-> rest]

\* PriorityQueue.push
priority_push(item, priority) ==
    /\ index < MaxPushes
    /\ queue' = heappush(queue, <<priority, index, item>>)
    /\ index' = index + 1
    /\ result' = Returned("push", <<item, priority>>, <<>>)
    /\ UNCHANGED <<library_system, two_stack_queue, stack, min_stack, pops,
                   thread_safe_singleton>>

\* PriorityQueue.pop
priority_pop ==
    IF queue # <<>>
    THEN /\ queue' = heappop(queue).heap
         /\ pops' = pops + 1
         /\ result' = Returned("pop", <<>>, <<heappop(queue).returnitem[3]>>)
         /\ UNCHANGED <<library_system, two_stack_queue, stack, min_stack, index,
                        thread_safe_singleton>>
    ELSE /\ result' = Raised("pop", <<>>, "IndexError")
         /\ UNCHANGED <<library_system, two_stack_queue, stack, min_stack,
                        priority_queue,
                   thread_safe_singleton>>

\* PriorityQueue.is_empty
priority_is_empty == Len(queue) = 0

NextPriorityQueue ==
    \/ \E item \in QueueItems, priority \in Priorities : priority_push(item, priority)
    \/ priority_pop

SpecPriorityQueue == Init /\ [][NextPriorityQueue]_vars

\* ------------------------------------------------ the ThreadSafeSingleton
AttributeValues == {"First instance"}

others == <<library_system, two_stack_queue, stack, min_stack, priority_queue,
            result>>

\* a thread calls ThreadSafeSingleton()
call(t) ==
    /\ pc[t] = "idle"
    /\ calls[t] < MaxCalls
    /\ calls' = [calls EXCEPT ![t] = calls[t] + 1]
    /\ pc' = [pc EXCEPT ![t] = "with"]
    /\ UNCHANGED <<others, _instance, _lock, objects, returned, inits>>

\* "with cls._lock" entered whoever holds the lock
acquire_unlocked(t) ==
    /\ pc[t] = "with"
    /\ _lock' = t
    /\ pc' = [pc EXCEPT ![t] = "if"]
    /\ UNCHANGED <<others, _instance, objects, returned, calls, inits>>

\* "with cls._lock": the thread waits until the lock is free and takes it
acquire(t) ==
    /\ pc[t] = "with"
    /\ _lock = NoThread
    /\ _lock' = t
    /\ pc' = [pc EXCEPT ![t] = "if"]
    /\ UNCHANGED <<others, _instance, objects, returned, calls, inits>>

\* "if cls._instance is None"
is_none(t) ==
    /\ pc[t] = "if"
    /\ pc' = [pc EXCEPT ![t] = IF _instance = NoObject THEN "new" ELSE "exit"]
    /\ UNCHANGED <<others, _instance, _lock, objects, returned, calls, inits>>

\* "cls._instance = super().__new__(cls)": a new object without attributes
__new__(t) ==
    /\ pc[t] = "new"
    /\ objects' = Append(objects, [value |-> <<>>])
    /\ _instance' = Len(objects) + 1
    /\ pc' = [pc EXCEPT ![t] = "value"]
    /\ UNCHANGED <<others, _lock, returned, calls, inits>>

\* "cls._instance.value = None"
value_none(t) ==
    /\ pc[t] = "value"
    /\ objects' = [objects EXCEPT ![_instance].value = <<None>>]
    /\ inits' = inits + 1
    /\ pc' = [pc EXCEPT ![t] = "exit"]
    /\ UNCHANGED <<others, _instance, _lock, returned, calls>>

\* the end of the with block releases the lock
release(t) ==
    /\ pc[t] = "exit"
    /\ _lock' = NoThread
    /\ pc' = [pc EXCEPT ![t] = "return"]
    /\ UNCHANGED <<others, _instance, objects, returned, calls, inits>>

\* "return cls._instance"
return_instance(t) ==
    /\ pc[t] = "return"
    /\ returned' = [returned EXCEPT ![t] = _instance]
    /\ pc' = [pc EXCEPT ![t] = "idle"]
    /\ UNCHANGED <<others, _instance, _lock, objects, calls, inits>>

\* a thread sets the value attribute of the instance it was given
set_value(t, v) ==
    /\ pc[t] = "idle"
    /\ returned[t] # NoObject
    /\ objects' = [objects EXCEPT ![returned[t]].value = <<v>>]
    /\ UNCHANGED <<others, _instance, _lock, pc, returned, calls, inits>>

NextSingleton ==
    \E t \in Threads :
        \/ call(t)
        \/ acquire(t)
        \/ is_none(t)
        \/ __new__(t)
        \/ value_none(t)
        \/ release(t)
        \/ return_instance(t)
        \/ \E v \in AttributeValues : set_value(t, v)

SpecSingleton == Init /\ [][NextSingleton]_vars

\* InitLoans is a state of Spec
LoansSetupReached ==
    /\ items = <<"B1", "B2">>
    /\ patrons = <<"P1", "P2">>
    /\ transaction_log = SetupLog
    /\ inbox = [o \in ObserverIds |-> SetupMessages]
    /\ last = Call("register_patron", "P2", None, TRUE, 0,
                   [raised |-> FALSE, delivered |-> <<"email", "sms">>])
    /\ now = 0
    /\ librarians = <<>>
    /\ checked_out = [i \in ItemIds |-> FALSE]
    /\ borrowed_items = [p \in PatronIds |-> EmptyDict]
    /\ fine_amount = [p \in PatronIds |-> 0]
    /\ paid = [p \in PatronIds |-> 0]

NotLoansSetupReached == ~LoansSetupReached

TypeOK ==
    /\ Range(items) \subseteq ItemIds
    /\ now \in 0..MaxTime
    /\ Len(transaction_log) <= log_cap

\* ------------------------------------------------------------ properties
\* last' is the record of a call of op with these ids: true of every step
\* that is this call, and cheap to evaluate ahead of the call's action
Called(op, patron_id, item_id) ==
    /\ last'.op = op
    /\ last'.patron_id = patron_id
    /\ last'.item_id = item_id

\* the registered patrons whose borrowed mapping has the item id as a key
Holders(item_id) ==
    {p \in Range(patrons) : item_id \in DOMAIN borrowed_items[p]}

\* new is old with exactly one element appended
Appended(old, new) ==
    /\ Len(new) = Len(old) + 1
    /\ SubSeq(new, 1, Len(old)) = old

\* every subscribed observer got exactly one more message, accepted by Names,
\* and nobody else got anything
BroadcastOnce(Names(_)) ==
    \A o \in ObserverIds :
        IF o \in Range(observers)
        THEN /\ Appended(inbox[o], inbox'[o])
             /\ Names(inbox'[o][Len(inbox'[o])])
        ELSE inbox'[o] = inbox[o]

\* the sum of the fines of the patron's "return_item" entries of the log
RECURSIVE FeesCharged(_, _)
FeesCharged(patron_id, k) ==
    IF k = 0 THEN 0
    ELSE FeesCharged(patron_id, k - 1)
         + (IF /\ transaction_log[k].type = "return_item"
               /\ transaction_log[k].details.patron_id = patron_id
            THEN transaction_log[k].details.fine
            ELSE 0)

\* C1: in every reachable state, for every item of the catalog, the item's
\* checked-out flag is true iff its id is a key of the borrowed mapping of
\* exactly one registered patron, and false iff it is in no patron's mapping.
C1_FlagIffOneBorrower ==
    \A i \in Range(items) :
        /\ checked_out[i] <=> Cardinality(Holders(i)) = 1
        /\ ~checked_out[i] <=> Holders(i) = {}

\* C1 witness: a check-out succeeded while another catalog item is available.
C1_Witness ==
    /\ last.op = "check_out_item" /\ last.ret
    /\ checked_out[last.item_id]
    /\ Holders(last.item_id) = {last.patron_id}
    /\ \E j \in Range(items) : ~checked_out[j] /\ Holders(j) = {}

\* C2: check_out_item on an item that is already checked out, whoever holds
\* it, returns False and leaves the flags, every borrowed mapping, the fines,
\* the catalog, the registries, the log and every inbox unchanged.
C2_CheckedOutRejected ==
    [][\A p \in PatronIds, i \in ItemIds, d \in DueDays :
          (/\ Called("check_out_item", p, i)
           /\ check_out_item(p, i, d)
           /\ i \in Range(items) /\ checked_out[i])
          => (last'.ret = FALSE /\ UNCHANGED <<library, paid>>)]_vars

\* C2 witness: a registered patron's check-out of an item another patron
\* holds was rejected, and the item is still in the holder's mapping only.
C2_Witness ==
    /\ last.op = "check_out_item" /\ ~last.ret
    /\ last.patron_id \in Range(patrons)
    /\ checked_out[last.item_id]
    /\ Cardinality(Holders(last.item_id)) = 1
    /\ last.patron_id \notin Holders(last.item_id)

\* C3: return_item(p, i) with i not a key of p's borrowed mapping (borrowed
\* by somebody else, or p or i unknown) returns (False, 0.0) and leaves the
\* whole library unchanged: flags, mappings, fines, log and inboxes.
C3_ForeignReturnRejected ==
    [][\A p \in PatronIds, i \in ItemIds :
          (/\ Called("return_item", p, i)
           /\ return_item(p, i)
           /\ i \notin DOMAIN borrowed_items[p])
          => (/\ last'.ret = FALSE
              /\ last'.fine = 0
              /\ UNCHANGED <<library, paid>>)]_vars

\* C3 witness: a registered patron's return of an item that another patron
\* holds was rejected, and the item is still checked out to its borrower.
C3_Witness ==
    /\ last.op = "return_item" /\ ~last.ret /\ last.fine = 0
    /\ last.patron_id \in Range(patrons)
    /\ checked_out[last.item_id]
    /\ \E q \in Range(patrons) :
          q # last.patron_id /\ Holders(last.item_id) = {q}

\* C4: an item's checked-out flag goes from false to true exactly in the
\* steps that are a successful check_out_item of that item, and from true to
\* false exactly in the steps that are a successful return_item of that item
\* by the patron holding it; no other step changes a flag.
C4_LoanTransitions ==
    [][\A i \in ItemIds :
          /\ (~checked_out[i] /\ checked_out'[i])
             <=> (\E p \in PatronIds, d \in DueDays :
                     /\ Called("check_out_item", p, i) /\ last'.ret
                     /\ check_out_item(p, i, d))
          /\ (checked_out[i] /\ ~checked_out'[i])
             <=> (\E p \in PatronIds :
                     /\ Called("return_item", p, i) /\ last'.ret
                     /\ return_item(p, i)
                     /\ i \in DOMAIN borrowed_items[p])]_vars

\* C4 witness: an item went through both transitions: its holder has just
\* returned it, and the log holds its check-out.
C4_Witness ==
    /\ last.op = "return_item" /\ last.ret
    /\ ~checked_out[last.item_id]
    /\ \E k \in 1..Len(transaction_log) :
          /\ transaction_log[k].type = "check_out"
          /\ transaction_log[k].details.item_id = last.item_id

\* C5: the fee a successful return reports is 0.25 * d when the return is d
\* whole days (d >= 0) past the recorded due date, 0 when it is on or before
\* the due date, and never negative.
C5_LateFee ==
    [][\A p \in PatronIds, i \in ItemIds :
          (Called("return_item", p, i) /\ last'.ret /\ return_item(p, i))
          => LET late == now - borrowed_items[p][i]
             IN  /\ late <= 0 => last'.fine = 0
                 /\ \A d \in 0..MaxTime :
                       (d * TicksPerDay <= late /\ late < (d + 1) * TicksPerDay)
                       => last'.fine = d * LateFeePerDay
                 /\ last'.fine >= 0]_vars

\* C5 witness: the scenario of the specification: a loan of 0 days returned
\* 3 days later reports (True, 0.75).
C5_Witness ==
    /\ last.op = "return_item" /\ last.ret
    /\ last.fine = 75
    /\ now = 3 * TicksPerDay
    /\ \E k \in 1..Len(transaction_log) :
          /\ transaction_log[k].type = "check_out"
          /\ transaction_log[k].details.item_id = last.item_id
          /\ transaction_log[k].details.due_days = 0

\* C6: a successful check_out_item(p, i, loan_days) sets the flag of i, adds
\* i to p's borrowed mapping with due date now + loan_days days, appends one
\* "check_out" transaction naming p and i, and broadcasts one message naming
\* the patron and the item; no other mapping, flag or fine changes.
C6_CheckOutEffect ==
    [][\A p \in PatronIds, i \in ItemIds, d \in DueDays :
          (/\ Called("check_out_item", p, i) /\ last'.ret
           /\ check_out_item(p, i, d))
          => (/\ ~checked_out[i]
              /\ checked_out' = [checked_out EXCEPT ![i] = TRUE]
              /\ borrowed_items' =
                    [borrowed_items EXCEPT
                        ![p] = Put(@, i, now + d * TicksPerDay)]
              /\ Appended(transaction_log, transaction_log')
              /\ LET e == transaction_log'[Len(transaction_log')]
                 IN  /\ e.type = "check_out"
                     /\ e.details.patron_id = p
                     /\ e.details.item_id = i
              /\ BroadcastOnce(LAMBDA m : m.name = name(p) /\ m.title = title(i))
              /\ UNCHANGED <<items, patrons, fine_amount, librarians,
                             observers>>)]_vars

\* C6 witness: a loan of one day was just made while another patron holds
\* another item: the due date is one day from now.
C6_Witness ==
    /\ last.op = "check_out_item" /\ last.ret
    /\ transaction_log[Len(transaction_log)].details.due_days = 1
    /\ borrowed_items[last.patron_id][last.item_id] = now + TicksPerDay
    /\ \E q \in Range(patrons) \ {last.patron_id} :
          DOMAIN borrowed_items[q] # {}

\* C7: a successful return_item(p, i) removes i from p's borrowed mapping,
\* clears the flag of i, adds exactly the returned fee to p's fine, appends
\* one "return_item" transaction carrying that fee, and broadcasts one
\* message; other patrons and other items are unchanged.
C7_ReturnEffect ==
    [][\A p \in PatronIds, i \in ItemIds :
          (Called("return_item", p, i) /\ last'.ret /\ return_item(p, i))
          => (/\ i \in DOMAIN borrowed_items[p]
              /\ borrowed_items' = [borrowed_items EXCEPT ![p] = Del(@, i)]
              /\ checked_out[i]
              /\ checked_out' = [checked_out EXCEPT ![i] = FALSE]
              /\ fine_amount' = [fine_amount EXCEPT ![p] = @ + last'.fine]
              /\ Appended(transaction_log, transaction_log')
              /\ LET e == transaction_log'[Len(transaction_log')]
                 IN  /\ e.type = "return_item"
                     /\ e.details.patron_id = p
                     /\ e.details.item_id = i
                     /\ e.details.fine = last'.fine
              /\ BroadcastOnce(LAMBDA m : m.name = name(p) /\ m.title = title(i))
              /\ UNCHANGED <<items, patrons, librarians, observers>>)]_vars

\* C7 witness: a late return was just charged while the other patron still
\* holds the other item.
C7_Witness ==
    /\ last.op = "return_item" /\ last.ret
    /\ last.fine > 0
    /\ fine_amount[last.patron_id] = last.fine
    /\ last.item_id \notin DOMAIN borrowed_items[last.patron_id]
    /\ \E q \in Range(patrons) \ {last.patron_id} :
          DOMAIN borrowed_items[q] # {}

\* C8: check_out_item(p, i) returns True iff p is a registered patron, i is
\* in the catalog, i is not checked out and i is not in p's borrowed mapping;
\* with p or i unknown it returns False, does not raise, and changes nothing.
C8_CheckOutResult ==
    [][\A p \in PatronIds, i \in ItemIds, d \in DueDays :
          (Called("check_out_item", p, i) /\ check_out_item(p, i, d))
          => (/\ last'.ret <=> (/\ p \in Range(patrons)
                                /\ i \in Range(items)
                                /\ ~checked_out[i]
                                /\ i \notin DOMAIN borrowed_items[p])
              /\ (p \notin Range(patrons) \/ i \notin Range(items))
                 => (/\ ~last'.raised
                     /\ UNCHANGED <<library, paid>>))]_vars

\* C8 witness: a check-out by an unregistered patron of an available
\* catalog item was refused.
C8_Witness ==
    /\ last.op = "check_out_item" /\ ~last.ret /\ ~last.raised
    /\ last.patron_id \notin Range(patrons)
    /\ last.item_id \in Range(items)
    /\ ~checked_out[last.item_id]

\* C9: pay_fine(amount) returns False and leaves the fine unchanged when
\* amount <= 0 or amount > the current fine; otherwise it returns True and
\* the fine decreases by exactly amount.  No mapping and no item changes.
C9_PayFine ==
    [][\A p \in PatronIds, a \in Amounts :
          (Called("pay_fine", p, None) /\ pay_fine(p, a))
          => (/\ IF a <= 0 \/ a > fine_amount[p]
                 THEN last'.ret = FALSE /\ fine_amount' = fine_amount
                 ELSE /\ last'.ret = TRUE
                      /\ fine_amount' = [fine_amount EXCEPT ![p] = @ - a]
              /\ UNCHANGED <<items, checked_out, patrons, borrowed_items,
                             librarians, transaction_log, observers,
                             inbox>>)]_vars

\* C9 witness: a patron has just paid the whole of a fine.
C9_Witness ==
    /\ last.op = "pay_fine" /\ last.ret
    /\ paid[last.patron_id] > 0
    /\ fine_amount[last.patron_id] = 0

\* C10: in every state reached by check_out_item, return_item and pay_fine
\* calls, every patron's fine is non-negative and equals the sum of the late
\* fees of the patron's successful returns minus the sum of the patron's
\* successful payments.
C10_FineBalance ==
    \A p \in PatronIds :
        /\ fine_amount[p] >= 0
        /\ fine_amount[p] = FeesCharged(p, Len(transaction_log)) - paid[p]

\* C10 witness: a patron was charged a late fee, has paid a part of it and
\* still owes the rest.
C10_Witness ==
    \E p \in PatronIds :
        /\ FeesCharged(p, Len(transaction_log)) > 0
        /\ paid[p] > 0
        /\ fine_amount[p] > 0

\* the log entry at k is a "check_out" or a "return_item" of the item
LoanEntry(k, item_id) ==
    /\ transaction_log[k].type \in {"check_out", "return_item"}
    /\ transaction_log[k].details.item_id = item_id

\* C11: an item id is a key of a patron's borrowed mapping only if the item
\* is flagged checked-out and the most recent successful check_out_item of
\* the item was made by that patron and no successful return of it followed.
C11_BorrowedByLastBorrower ==
    \A p \in PatronIds :
        \A i \in DOMAIN borrowed_items[p] :
            /\ checked_out[i]
            /\ \E k \in 1..Len(transaction_log) :
                  /\ LoanEntry(k, i)
                  /\ transaction_log[k].type = "check_out"
                  /\ transaction_log[k].details.patron_id = p
                  /\ \A j \in (k + 1)..Len(transaction_log) : ~LoanEntry(j, i)

\* C11 witness: an item one patron borrowed and returned is now in the
\* mapping of the other patron, who checked it out afterwards.
C11_Witness ==
    \E p \in PatronIds, q \in PatronIds, i \in ItemIds :
        /\ p # q
        /\ i \in DOMAIN borrowed_items[q]
        /\ i \notin DOMAIN borrowed_items[p]
        /\ \E k \in 1..Len(transaction_log) :
              /\ transaction_log[k].type = "return_item"
              /\ transaction_log[k].details.item_id = i
              /\ transaction_log[k].details.patron_id = p

\* the last entry of the log after the step
Logged == transaction_log'[Len(transaction_log')]

\* C12: add_item returns False and leaves the catalog, the item under that
\* id, the log and the inboxes unchanged when the id is already a catalog
\* key; otherwise it inserts the item under its id, appends exactly one
\* "add_item" transaction, broadcasts exactly one notification and returns
\* True.
C12_AddItem ==
    [][\A i \in ItemIds :
          (Called("add_item", None, i) /\ add_item(i))
          => IF i \in Range(items)
             THEN last'.ret = FALSE /\ UNCHANGED <<library, paid>>
             ELSE /\ last'.ret = TRUE
                  /\ items' = Append(items, i)
                  /\ Appended(transaction_log, transaction_log')
                  /\ Logged.type = "add_item"
                  /\ Logged.details.item_id = i
                  /\ BroadcastOnce(LAMBDA m : m.title = title(i))
                  /\ UNCHANGED <<checked_out, patrons, borrowed_items,
                                 fine_amount, librarians, observers>>]_vars

\* C12 witness: a second add_item under the id of a checked-out catalog item
\* was refused, and the item is still checked out.
C12_Witness ==
    /\ last.op = "add_item" /\ ~last.ret
    /\ last.item_id \in Range(items)
    /\ checked_out[last.item_id]
    /\ Holders(last.item_id) # {}

\* C13: remove_item returns False and changes nothing when the id is unknown
\* or the item is checked out; otherwise it deletes the item, logs one
\* "remove_item" transaction and broadcasts once.  Hence every id in a
\* registered patron's borrowed mapping is a key of the catalog.
C13_RemoveItem ==
    /\ [](\A p \in Range(patrons) : DOMAIN borrowed_items[p] \subseteq Range(items))
    /\ [][\A i \in ItemIds :
             (Called("remove_item", None, i) /\ remove_item(i))
             => IF i \notin Range(items) \/ checked_out[i]
                THEN last'.ret = FALSE /\ UNCHANGED <<library, paid>>
                ELSE /\ last'.ret = TRUE
                     /\ i \notin Range(items')
                     /\ Range(items') = Range(items) \ {i}
                     /\ Appended(transaction_log, transaction_log')
                     /\ Logged.type = "remove_item"
                     /\ Logged.details.item_id = i
                     /\ BroadcastOnce(LAMBDA m : m.title = title(i))
                     /\ UNCHANGED <<checked_out, patrons, borrowed_items,
                                    fine_amount, librarians, observers>>]_vars

\* C13 witness: the removal of a checked-out item was refused; the item is
\* in its borrower's mapping and in the catalog.
C13_Witness ==
    /\ last.op = "remove_item" /\ ~last.ret
    /\ last.item_id \in Range(items)
    /\ checked_out[last.item_id]
    /\ \E p \in Range(patrons) : last.item_id \in DOMAIN borrowed_items[p]

\* C14: register_patron and add_librarian return False and leave the
\* registries and the log unchanged when the id is already registered;
\* otherwise they insert the person and append one log entry.  A successful
\* register_patron broadcasts one notification, add_librarian none.
C14_RegisterPerson ==
    [][/\ \A p \in PatronIds :
             (Called("register_patron", p, None) /\ register_patron(p))
             => IF p \in Range(patrons)
                THEN last'.ret = FALSE /\ UNCHANGED <<library, paid>>
                ELSE /\ last'.ret = TRUE
                     /\ patrons' = Append(patrons, p)
                     /\ Appended(transaction_log, transaction_log')
                     /\ Logged.type = "register_patron"
                     /\ Logged.details.patron_id = p
                     /\ BroadcastOnce(LAMBDA m : m.name = name(p))
                     /\ UNCHANGED <<items, checked_out, borrowed_items,
                                    fine_amount, librarians, observers>>
       /\ \A l \in LibrarianIds :
             (Called("add_librarian", l, None) /\ add_librarian(l))
             => IF l \in Range(librarians)
                THEN last'.ret = FALSE /\ UNCHANGED <<library, paid>>
                ELSE /\ last'.ret = TRUE
                     /\ librarians' = Append(librarians, l)
                     /\ Appended(transaction_log, transaction_log')
                     /\ Logged.type = "add_librarian"
                     /\ Logged.details.librarian_id = l
                     /\ UNCHANGED <<items, checked_out, patrons,
                                    borrowed_items, fine_amount, observers,
                                    inbox>>]_vars

\* C14 witness: a second registration under the id of a patron who holds an
\* item was refused, after a librarian was added without a notification.
C14_Witness ==
    /\ last.op = "register_patron" /\ ~last.ret
    /\ DOMAIN borrowed_items[last.patron_id] # {}
    /\ librarians # <<>>
    /\ \A o \in Range(observers) : Len(inbox[o]) = Len(transaction_log) - 1

\* C19: the transaction log is append-only: in every step the log before
\* is a prefix of the log after.
C19_LogAppendOnly ==
    [][/\ Len(transaction_log') >= Len(transaction_log)
       /\ SubSeq(transaction_log', 1, Len(transaction_log)) = transaction_log
      ]_vars

\* C19 witness: the log has grown to several entries and a failed call
\* followed.
C19_Witness ==
    /\ Len(transaction_log) >= 3
    /\ last.op \in {"add_item", "remove_item", "check_out_item", "return_item"}
    /\ ~last.ret

\* the step is a call that reached Subject.notify
Broadcasts ==
    /\ last'.op \in {"add_item", "remove_item"}
    /\ Len(transaction_log') = Len(transaction_log) + 1

\* s has no element twice
NoDuplicates(s) == \A j, k \in 1..Len(s) : s[j] = s[k] => j = k

\* the message the call of log entry e hands to notify
MessageOf(e) ==
    [text |-> IF e.type = "add_item" THEN "New item added" ELSE "Item removed",
     title |-> title(e.details.item_id)]

\* s is t with some elements left out
RECURSIVE IsSubsequence(_, _)
IsSubsequence(s, t) ==
    IF s = <<>> THEN TRUE
    ELSE IF t = <<>> THEN FALSE
    ELSE IF Head(s) = Head(t) THEN IsSubsequence(Tail(s), Tail(t))
    ELSE IsSubsequence(s, Tail(t))

\* the messages of the calls of the log, in the order of the calls
Broadcasted == [k \in 1..Len(transaction_log) |-> MessageOf(transaction_log[k])]

\* C16: when the update() of a subscribed observer raises during notify,
\* every other subscribed observer, those attached after it included, still
\* receives the message.
C16_FailingSinkIsolated ==
    [][Broadcasts
       => \A o \in Range(observers) \ failing :
             /\ Appended(inbox[o], inbox'[o])
             /\ inbox'[o][Len(inbox'[o])] = MessageOf(Logged)]_vars

\* C17: each notify delivers the message exactly once to every observer
\* attached at that moment, within the call and in the order of attachment,
\* and to no other observer; so each observer receives the messages in the
\* order of the calls.
C17_BroadcastInOrder ==
    /\ [](\A o \in ObserverIds : IsSubsequence(inbox[o], Broadcasted))
    /\ [](NoDuplicates(observers))
    /\ [][/\ Broadcasts
             => /\ last'.delivered = observers
                /\ ~last'.raised
                /\ BroadcastOnce(LAMBDA m : m = MessageOf(Logged))
          /\ ~Broadcasts => inbox' = inbox
          /\ \A o \in ObserverIds :
                /\ (Called("attach", o, None) /\ o \notin Range(observers))
                   => observers' = Append(observers, o)
                /\ Called("detach", o, None)
                   => observers' = SelectSeq(observers, LAMBDA x : x # o)
         ]_vars

\* C17 witness: sms was attached before email and a detached observer
\* missed a message: the last call delivered to sms, then to email, and the
\* inboxes differ.
C17_Witness ==
    /\ last.op \in {"add_item", "remove_item"}
    /\ last.delivered = <<"sms", "email">>
    /\ Len(inbox["email"]) = 2
    /\ Len(inbox["sms"]) = 2
    /\ inbox["email"] # inbox["sms"]

\* C18: attach of an attached observer and detach of an observer that is
\* not attached leave the list unchanged, and detach does not raise; the
\* list never holds an observer twice; attach then detach of a new observer
\* gives the list back.
C18_AttachDetachIdempotent ==
    /\ [](/\ NoDuplicates(observers)
          /\ \A o \in ObserverIds \ Range(observers) :
                detached(attached(observers, o), o) = observers)
    /\ [][\A o \in ObserverIds :
             /\ (Called("attach", o, None) /\ attach(o) /\ o \in Range(observers))
                => UNCHANGED <<observers, inbox>>
             /\ (Called("detach", o, None) /\ detach(o) /\ o \notin Range(observers))
                => UNCHANGED <<observers, inbox>> /\ ~last'.raised
         ]_vars

\* C18 witness: email, attached before sms, was attached again after a
\* message went to both; the list is as before.
C18_Witness ==
    /\ last.op = "attach" /\ last.patron_id = "email"
    /\ observers = <<"email", "sms">>
    /\ inbox["sms"] # <<>>
    /\ inbox["email"] = inbox["sms"]

\* x and y are one letter, in either case
SameLetter(x, y) == x = y \/ <<x, y>> \in LetterCases \/ <<y, x>> \in LetterCases

\* sub occurs in s at some offset, letter for letter whatever the case
OccursIn(sub, s) ==
    \E j \in 0..(Len(s) - Len(sub)) :
        \A k \in 1..Len(sub) : SameLetter(s[j + k], sub[k])

\* a and b are one value of one type
SameValue(a, b) == a = b

\* the item satisfies the criterion key = value
Satisfies(item_id, key, value) ==
    IF key = "checked_out" THEN SameValue(value, bool(checked_out[item_id]))
    ELSE /\ hasattr(item_id, key)
         /\ IF getattr(item_id, key).type = "str" /\ value.type = "str"
            THEN OccursIn(value.chars, getattr(item_id, key).chars)
            ELSE SameValue(getattr(item_id, key), value)

\* C15: search_items returns exactly the catalog items that satisfy every
\* criterion, each once: "checked_out" compares with the flag, a str
\* criterion on a str attribute is a case-insensitive substring test, any
\* other attribute is compared for equality, and an item without the named
\* attribute is left out; without criteria every catalog item is returned.
C15_SearchItems ==
    [][(last'.op = "search_items" /\ search_items(last'.arg))
       => LET c == last'.arg
          IN  /\ NoDuplicates(last'.ret)
              /\ Range(last'.ret)
                 = {i \in Range(items) :
                      \A k \in 1..Len(c) : Satisfies(i, c[k][1], c[k][2])}
              /\ c = <<>> => Range(last'.ret) = Range(items)]_vars

\* C15 witness: with B1 checked out, the search for title "pY" among the
\* items not checked out returned the DVD alone, by a match that differs in
\* case.
C15_Witness ==
    /\ last.op = "search_items"
    /\ last.arg = << <<"title", str(<<"p", "Y">>)>>, <<"checked_out", bool(FALSE)>> >>
    /\ last.ret = <<"B2">>
    /\ checked_out["B1"]
    /\ items = <<"B1", "B2">>

\* the positions of the "check_out" entries of the item id in the log
CheckOuts(item_id) ==
    {k \in 1..Len(transaction_log) :
        /\ transaction_log[k].type = "check_out"
        /\ transaction_log[k].details.item_id = item_id}

\* the position of the first of them
FirstCheckOut(item_id) ==
    CHOOSE k \in CheckOuts(item_id) : \A j \in CheckOuts(item_id) : k <= j

\* i ranks ahead of j: more check-outs, or as many and met earlier in the log
Ahead(i, j) ==
    \/ Cardinality(CheckOuts(i)) > Cardinality(CheckOuts(j))
    \/ /\ Cardinality(CheckOuts(i)) = Cardinality(CheckOuts(j))
       /\ FirstCheckOut(i) < FirstCheckOut(j)

\* ranked is the head of the ranking of the candidates, each with its count
TopOf(candidates, ranked) ==
    /\ \A k \in 1..Len(ranked) :
          /\ ranked[k][1] \in candidates
          /\ ranked[k][2] = Cardinality(CheckOuts(ranked[k][1]))
    /\ \A j, k \in 1..Len(ranked) : j < k => Ahead(ranked[j][1], ranked[k][1])
    /\ \A i \in candidates :
          \/ \E k \in 1..Len(ranked) : ranked[k][1] = i
          \/ \A k \in 1..Len(ranked) : Ahead(ranked[k][1], i)

\* the item ids with at least one "check_out" entry
Borrowed == {i \in ItemIds : CheckOuts(i) # {}}

Least(a, b) == IF a < b THEN a ELSE b

\* C20 as stated: get_popular_items(limit) returns the top limit of the
\* item ids that have a "check_out" entry, each with its count, by
\* descending count and, among equal counts, in the order first met in the
\* log; every such id is a candidate and the result is never longer than
\* limit.
C20_PopularItems ==
    [][(last'.op = "get_popular_items" /\ get_popular_items(last'.arg))
       => /\ TopOf(Borrowed, last'.ret)
          /\ Len(last'.ret) <= last'.arg
          /\ Len(last'.ret) = Least(last'.arg, Cardinality(Borrowed))]_vars

\* C20 amended: the candidates are the item ids with a "check_out" entry
\* that are still in the catalog; the result is the head of their ranking,
\* of length min(limit, candidates) for limit >= 0, and for a negative limit
\* the ranking without its last -limit entries.
C20_PopularItemsInCatalog ==
    [][(last'.op = "get_popular_items" /\ get_popular_items(last'.arg))
       => LET candidates == Borrowed \cap Range(items)
              n == Cardinality(candidates)
          IN  /\ TopOf(candidates, last'.ret)
              /\ last'.arg >= 0 => Len(last'.ret) = Least(last'.arg, n)
              /\ last'.arg < 0
                 => Len(last'.ret) = IF n + last'.arg > 0 THEN n + last'.arg ELSE 0
         ]_vars

\* C20 witness: after three check-outs of B2 and, before them, one of B1,
\* get_popular_items(1) returned B2 with 3.
C20_Witness ==
    /\ last.op = "get_popular_items" /\ last.arg = 1
    /\ last.ret = << <<"B2", 3>> >>
    /\ Cardinality(CheckOuts("B1")) = 1
    /\ FirstCheckOut("B1") < FirstCheckOut("B2")
    /\ items = <<"B1", "B2">>

\* the list under the patron's id in the report, empty when the id is not
\* a key
ReportedUnder(report, patron_id) ==
    IF \E k \in 1..Len(report) : report[k][1] = patron_id
    THEN report[CHOOSE k \in 1..Len(report) : report[k][1] = patron_id][2]
    ELSE <<>>

\* C21: get_overdue_items returns, under each patron's id, exactly the
\* (item, due date) pairs of the items the patron holds whose due date is
\* strictly before now, each once; no pair with due date >= now, and no
\* item under a patron who does not hold it.
C21_OverdueItems ==
    [][(last'.op = "get_overdue_items" /\ get_overdue_items)
       => LET report == last'.ret
          IN  /\ \A j, k \in 1..Len(report) : report[j][1] = report[k][1] => j = k
              /\ \A k \in 1..Len(report) : report[k][1] \in Range(patrons)
              /\ \A p \in PatronIds :
                    /\ NoDuplicates(ReportedUnder(report, p))
                    /\ Range(ReportedUnder(report, p))
                       = {<<i, borrowed_items[p][i]>> :
                            i \in {j \in DOMAIN borrowed_items[p] :
                                      borrowed_items[p][j] < now}}]_vars

\* C21 witness: P1 holds B1, overdue, and B2, due just now; the report has
\* B1 alone under P1.
C21_Witness ==
    /\ last.op = "get_overdue_items"
    /\ DOMAIN borrowed_items["P1"] = {"B1", "B2"}
    /\ borrowed_items["P1"]["B2"] = now
    /\ borrowed_items["P1"]["B1"] < now
    /\ last.ret = << <<"P1", << <<"B1", borrowed_items["P1"]["B1"]>> >> >> >>

ReadOnly ==
    {"get_item", "get_patron", "get_librarian", "search_items",
     "get_checked_out_items", "get_available_items", "get_overdue_items",
     "get_popular_items"}

\* C22: get_item, get_patron, get_librarian, search_items,
\* get_checked_out_items, get_available_items, get_overdue_items and
\* get_popular_items leave the catalog, the registries, the flags, the
\* borrowed mappings, the fines, the observer list and the log unchanged,
\* and no observer receives anything.
C22_ReadOnly ==
    [][(last'.op \in ReadOnly)
       => /\ UNCHANGED <<items, checked_out, patrons, borrowed_items,
                         fine_amount, librarians, transaction_log, observers,
                         inbox, paid>>
          /\ last'.delivered = <<>>
          /\ ~last'.raised]_vars

\* C22 witness: with an item on loan and overdue, the overdue report was
\* read and the log and the inboxes are as the check-out left them.
C22_Witness ==
    /\ last.op = "get_overdue_items"
    /\ last.ret # <<>>
    /\ \E i \in ItemIds : checked_out[i]
    /\ Len(transaction_log) = Len(SetupLog) + 1
    /\ transaction_log[Len(transaction_log)].type = "check_out"
    /\ \A o \in ObserverIds : Len(inbox[o]) = Len(transaction_log)

\* C23: export_data returns True when the write succeeds and False, without
\* raising, when serialization or the write fails; either way the catalog,
\* the registries, the loans, the fines and the log are unchanged, nothing
\* is logged and no observer receives anything.
C23_ExportData ==
    [][\A e \in ExportExceptions \cup {None} :
          (last'.op = "export_data" /\ last'.arg = e /\ export_data(e))
          => /\ last'.ret = (e = None)
             /\ ~last'.raised
             /\ last'.delivered = <<>>
             /\ UNCHANGED <<items, checked_out, patrons, borrowed_items,
                            fine_amount, librarians, transaction_log,
                            observers, inbox, paid>>]_vars

\* C23 witness: with an item on loan and a librarian added, an export whose
\* serialization failed returned False.
C23_Witness ==
    /\ last.op = "export_data" /\ last.arg = "TypeError"
    /\ last.ret = FALSE
    /\ \E i \in ItemIds : checked_out[i]
    /\ librarians # <<>>

\* the positions of the "return_item" entries of the item id in the log
Returns(item_id) ==
    {k \in 1..Len(transaction_log) :
        /\ transaction_log[k].type = "return_item"
        /\ transaction_log[k].details.item_id = item_id}

Logging ==
    {"add_item", "remove_item", "register_patron", "add_librarian",
     "check_out_item", "return_item"}

\* C24: for every item id the "check_out" entries of the log outnumber its
\* "return_item" entries by 1 when an item with that id is checked out and
\* by 0 otherwise, also when the item was removed and another added under
\* the id; a failed call appends nothing and a successful add_item,
\* remove_item, register_patron, add_librarian, check_out_item or
\* return_item appends exactly one entry.
C24_LogBalance ==
    /\ [](\A i \in ItemIds :
            Cardinality(CheckOuts(i)) - Cardinality(Returns(i))
            = IF i \in Range(items) /\ checked_out[i] THEN 1 ELSE 0)
    /\ [][last'.op \in Logging
          => IF last'.ret
             THEN Appended(transaction_log, transaction_log')
             ELSE transaction_log' = transaction_log]_vars

\* C24 witness: B1 was lent and returned, removed, added again and lent
\* again: two "check_out" entries, one "return_item" entry, B1 checked out.
C24_Witness ==
    /\ Cardinality(CheckOuts("B1")) = 2
    /\ Cardinality(Returns("B1")) = 1
    /\ checked_out["B1"]
    /\ \E j, k \in 1..Len(transaction_log) :
          /\ j < k
          /\ transaction_log[j] = transaction("remove_item", [item_id |-> "B1"])
          /\ transaction_log[k] = transaction("add_item", [item_id |-> "B1"])
          /\ \E c \in CheckOuts("B1") : c < j
          /\ \E c \in CheckOuts("B1") : c > k

\* C25: add_item, remove_item, register_patron, check_out_item and
\* return_item are all-or-nothing, also when the update() of a subscribed
\* observer raises: a call that does not end by returning True leaves the
\* catalog, the registries, the flags, the borrowed mappings, the fines and
\* the log as they were.
C25_AllOrNothing ==
    [][(/\ last'.op \in {"add_item", "remove_item", "register_patron",
                          "check_out_item", "return_item"}
        /\ ~(last'.ret /\ ~last'.raised))
       => UNCHANGED <<items, checked_out, patrons, borrowed_items,
                      fine_amount, librarians, transaction_log>>]_vars

\* the values enqueued and not yet dequeued, oldest first
Waiting == SubSeq(enqueued, dequeued + 1, Len(enqueued))

\* the order in which the two stacks hold the queue, front first
QueueOrder == reversed(stack_oldest) \o stack_newest

\* C26: TwoStackQueue is a FIFO queue: dequeue returns the oldest value
\* enqueued and not yet dequeued, peek returns that value (None when the
\* queue is empty) and leaves the contents as they are, size() is the
\* number of enqueues minus the number of successful dequeues, and dequeue
\* of an empty queue raises IndexError and leaves the queue empty.
C26_QueueFIFO ==
    /\ [](QueueOrder = Waiting)
    /\ [][/\ (result'.op = "dequeue" /\ dequeue)
             => IF Waiting = <<>>
                THEN /\ result'.raised = "IndexError"
                     /\ stack_newest' = <<>> /\ stack_oldest' = <<>>
                ELSE /\ result'.raised = None
                     /\ result'.ret = <<Head(Waiting)>>
                     /\ QueueOrder' = Tail(QueueOrder)
          /\ (result'.op = "peek" /\ peek)
             => /\ result'.raised = None
                /\ IF Waiting = <<>> THEN result'.ret = <<>>
                   ELSE result'.ret = <<Head(Waiting)>>
                /\ QueueOrder' = QueueOrder
          /\ (result'.op = "size" /\ size)
             => result'.ret = <<Len(enqueued) - dequeued>>
          /\ (result'.op = "enqueue")
             => QueueOrder' = Append(QueueOrder, result'.arg[1])
         ]_vars

\* C26 witness: a dequeue returned the oldest waiting value while newer
\* values were in both stacks, after an earlier dequeue and enqueues between
\* them.
C26_Witness ==
    /\ result.op = "dequeue" /\ result.raised = None
    /\ dequeued = 2
    /\ result.ret = <<enqueued[2]>>
    /\ enqueued[1] # enqueued[2]
    /\ stack_oldest # <<>>
    /\ stack_newest # <<>>

\* C27: TwoStackQueue.__str__ lists all queued values in the order in
\* which dequeue would return them, front first, whatever their split
\* between stack_oldest and stack_newest, and modifies neither stack.
C27_QueueStr ==
    [][(result'.op = "__str__" /\ queue_str)
       => /\ result'.ret = QueueOrder
          /\ UNCHANGED <<stack_oldest, stack_newest>>]_vars

\* the least of a non-empty set of numbers
Least_of(S) == CHOOSE m \in S : \A x \in S : m <= x

\* C28: after any pushes and pops, duplicates of the minimum included,
\* get_min() returns the least value on the stack and None when the stack
\* is empty, top() returns the last value pushed and not popped, pop() of an
\* empty MinStack returns None and changes nothing, and min_stack is empty
\* exactly when stack is.
C28_MinStack ==
    /\ []((min_stack = <<>>) <=> (stack = <<>>))
    /\ [][/\ (result'.op = "get_min" /\ get_min)
             => result'.ret = IF stack = <<>> THEN <<>>
                              ELSE <<Least_of(Range(stack))>>
          /\ (result'.op = "top" /\ top)
             => result'.ret = IF stack = <<>> THEN <<>>
                              ELSE <<stack[Len(stack)]>>
          /\ (result'.op = "push" /\ push(result'.arg[1]))
             => stack' = Append(stack, result'.arg[1])
          /\ (result'.op = "pop" /\ pop)
             => IF stack = <<>>
                THEN result'.ret = <<>> /\ UNCHANGED <<stack, min_stack>>
                ELSE /\ result'.ret = <<stack[Len(stack)]>>
                     /\ stack' = SubSeq(stack, 1, Len(stack) - 1)
         ]_vars

\* C28 witness: the minimum 1 was pushed twice over a 2 and pop() returned
\* one of the two; the other is still the top of both stacks.
C28_Witness ==
    /\ result.op = "pop"
    /\ result.ret = <<1>>
    /\ stack = <<2, 1>>
    /\ min_stack = <<2, 1>>

\* the queued entry of the lowest priority value and, among those, of the
\* lowest insertion index
First ==
    CHOOSE e \in Range(queue) :
        \A f \in Range(queue) : e[1] < f[1] \/ (e[1] = f[1] /\ e[2] <= f[2])

\* C29: pop returns the queued item of the lowest priority value and, among
\* items of equal priority, the one pushed earliest (the insertion index
\* counts the pushes); pop of an empty queue raises IndexError; is_empty()
\* is true exactly when the pushes equal the successful pops.
C29_PriorityQueue ==
    /\ [](priority_is_empty <=> (index = pops))
    /\ [](NoDuplicates(queue))
    /\ [][/\ (result'.op = "pop" /\ priority_pop)
             => IF queue = <<>>
                THEN result'.raised = "IndexError" /\ queue' = <<>>
                ELSE /\ result'.raised = None
                     /\ result'.ret = <<First[3]>>
                     /\ Range(queue') = Range(queue) \ {First}
                     /\ Len(queue') = Len(queue) - 1
          /\ (result'.op = "push"
              /\ priority_push(result'.arg[1], result'.arg[2]))
             => /\ Range(queue')
                   = Range(queue) \cup {<<result'.arg[2], index, result'.arg[1]>>}
                /\ Len(queue') = Len(queue) + 1
                /\ index' = index + 1
         ]_vars

\* C29 witness: the fourth of four items of one priority was pushed, two
\* were popped, and the last pop returned the item pushed second.
C29_Witness ==
    /\ result.op = "pop"
    /\ index = 4 /\ pops = 2
    /\ Range(queue) = {<<1, 2, 3>>, <<1, 3, 1>>}
    /\ result.ret = <<2>>

\* C30: under any interleaving of constructor calls, at most one instance
\* is created, every call returns that instance, and value is set to None
\* once, before any thread holds the instance: a value a thread has set is
\* never reset by a constructor call.
C30_ThreadSafeSingleton ==
    /\ [](Len(objects) <= 1)
    /\ [](inits <= 1)
    /\ [](\A t \in Threads :
            /\ returned[t] # NoObject => returned[t] = 1 /\ _instance = 1
            /\ (pc[t] = "idle" /\ calls[t] > 0) => returned[t] # NoObject)
    /\ [][/\ inits' # inits
             => \A t \in Threads : returned[t] = NoObject
          /\ \A o \in DOMAIN objects :
                objects[o].value \in {<<v>> : v \in AttributeValues}
                => objects'[o].value = objects[o].value
         ]_vars

\* C30 witness: both threads ran the constructor twice, one of them set the
\* value, and one object exists that both hold, its value still set.
C30_Witness ==
    /\ \A t \in Threads : calls[t] = MaxCalls /\ pc[t] = "idle" /\ returned[t] = 1
    /\ objects = <<[value |-> <<"First instance">>]>>
    /\ inits = 1

====
